---- MODULE Spec2Model ----
(***************************************************************************)
(* Model of the Bayesian adaptive CSF engine (QCSFEngine) in its two       *)
(* variants: the graded 7-outcome engine and the binary-AFC engine.        *)
(*                                                                         *)
(* Arithmetic.  The engine computes in IEEE doubles; the model computes in *)
(* fixed point on 32-bit integers.  Two units are used:                    *)
(*   Unit  (10^3): log-domain quantities - log-sensitivity, log-contrast,  *)
(*                 peak gain, bandwidth, truncation, slope, z-scores;      *)
(*   PUnit (10^4): linear quantities - frequencies (cpd), contrasts,       *)
(*                 probabilities, posterior mass, entropies (bits).        *)
(* Math.log10, Math.log2, Math.exp and Math.pow(10, .) are computed by     *)
(* integer algorithms (binary logarithm by repeated squaring, binary       *)
(* exponential by a table of roots of two), so a conversion is never the   *)
(* identity and every operation rounds, as the doubles do at their own     *)
(* precision.  Array indices are 0-based as in the source; the sequences   *)
(* that hold the arrays are read at index + 1.                             *)
(***************************************************************************)
EXTENDS Integers, Sequences, FiniteSets, TLC

Unit  == 10^3
PUnit == 10^4
Q12   == 2^12
Q14   == 2^14

Max(a, b) == IF a >= b THEN a ELSE b
Min(a, b) == IF a <= b THEN a ELSE b

\* a / b rounded to the nearest integer (b > 0)
RDiv(a, b) == (a + b \div 2) \div b

\* product of two Unit-scaled numbers
Mul(a, b) == RDiv(a * b, Unit)

\* product of two PUnit-scaled numbers
PMul(a, b) == RDiv(a * b, PUnit)

RECURSIVE DivDigits(_, _, _)
\* floor(a * 10^k / c) by long division, for 0 <= a and 0 < c with 10 * c in range
DivDigits(a, c, k) ==
    IF k = 0 THEN a \div c
    ELSE (a \div c) * 10^k + DivDigits((a % c) * 10, c, k - 1)

RECURSIVE SumSeq(_)
SumSeq(s) ==
    IF Len(s) = 0 THEN 0
    ELSE IF Len(s) = 1 THEN s[1]
    ELSE LET half == Len(s) \div 2
         IN SumSeq(SubSeq(s, 1, half)) + SumSeq(SubSeq(s, half + 1, Len(s)))

RECURSIVE FloorLog2(_)
FloorLog2(x) == IF x < 2 THEN 0 ELSE 1 + FloorLog2(x \div 2)

RECURSIVE FracBits(_, _)
\* the k fractional bits of log2 of the Q14 mantissa m in [1, 2)
FracBits(m, k) ==
    IF k = 0 THEN 0
    ELSE LET m2 == (m * m) \div Q14
         IN IF m2 >= 2 * Q14 THEN 2^(k - 1) + FracBits(m2 \div 2, k - 1)
                             ELSE FracBits(m2, k - 1)

\* log2 of the integer x >= 1, in Q12
ILog2(x) ==
    LET e == FloorLog2(x)
        m == IF e <= 14 THEN x * 2^(14 - e) ELSE x \div 2^(e - 14)
    IN e * Q12 + FracBits(m, 12)

\* log2 of the scale of the linear quantities
Log2PUnit == ILog2(PUnit)

\* Math.log10 of a PUnit-scaled positive number; the result is Unit-scaled
Log10(x) == RDiv((ILog2(x) - Log2PUnit) * 30103, 100 * Q12)

\* 2^(2^-k) in Q14, k = 1..12
Root2 == <<23170, 19484, 17867, 17109, 16743, 16562, 16472, 16428, 16406, 16395, 16389, 16387>>

RECURSIVE Pow2Frac(_, _, _)
Pow2Frac(f, k, m) ==
    IF k > 12 THEN m
    ELSE LET bit == (f \div 2^(12 - k)) % 2
         IN Pow2Frac(f, k + 1, IF bit = 1 THEN RDiv(m * Root2[k], Q14) ELSE m)

\* 2^y for y in Q12; the result is PUnit-scaled
Pow2(y) ==
    LET n == y \div Q12
        m == Pow2Frac(y % Q12, 1, Q14)
    IN IF n >= 0 THEN RDiv(m * PUnit, Q14) * 2^n
       ELSE IF n < -16 THEN 0
       ELSE RDiv(m * PUnit, Q14 * 2^(-n))

\* Math.exp of a Unit-scaled number; the result is PUnit-scaled.  Arguments
\* beyond [-12, 7] saturate: exp(-12) is below the resolution, and the only
\* caller with a positive argument (the logistic) clamps its result anyway.
Exp(x) == Pow2(RDiv(Max(-12 * Unit, Min(7 * Unit, x)) * 5909, Unit))

\* Math.pow(10, x) of a Unit-scaled number; the result is PUnit-scaled
Pow10(x) == Pow2(RDiv(x * 13607, Unit))

\* ILog2 tabulated over the probabilities 1..PUnit
Log2Table == [q \in 1..PUnit |-> ILog2(q)] @@ << >>

\* -q * log2(q) for a PUnit-scaled probability q in (0, 1]; PUnit-scaled bits
NegPLog2(q) == RDiv(q * (Log2PUnit - Log2Table[q]), Q12)

\* null / undefined
Null == [null |-> TRUE]

\* the outcome of a call that ended in an exception
Threw == [threw |-> TRUE]

(***************************************************************************)
(* Module constants of the engine                                          *)
(***************************************************************************)
MAX_HUMAN_CUTOFF_CPD == 60 * PUnit

FREQ_BANDS == <<
    [min |-> PUnit \div 2, max |-> 2 * PUnit,  minTrials |-> 8],
    [min |-> 2 * PUnit,    max |-> 6 * PUnit,  minTrials |-> 10],
    [min |-> 6 * PUnit,    max |-> 16 * PUnit, minTrials |-> 8],
    [min |-> 16 * PUnit,   max |-> 30 * PUnit, minTrials |-> 5] >>

LOG4 == Log10(4 * PUnit)

\* K(d) for d = 0, 1, 2, 3 steps: 0.70, 0.10, 0.04, 0.02
GRADED_KERNEL == <<RDiv(70 * PUnit, 100), RDiv(10 * PUnit, 100),
                   RDiv(4 * PUnit, 100), RDiv(2 * PUnit, 100)>>
GRADED_GUESS_RATE == RDiv(10 * PUnit, 100)
GRADED_LAPSE == RDiv(2 * PUnit, 100)

\* linspace of utils.js: n evenly spaced values from a to b, both included
Linspace(a, b, n) == [i \in 1..n |-> a + RDiv((b - a) * (i - 1), n - 1)]

\* DEFAULTS of the graded engine
DEFAULTS ==
    [numAFC              |-> 7,
     lapse               |-> RDiv(4 * PUnit, 100),
     falseAlarmRate      |-> RDiv(1 * PUnit, 100),
     psychometricSlope   |-> RDiv(35 * Unit, 10),
     peakGainValues      |-> Linspace(RDiv(5 * Unit, 10), RDiv(28 * Unit, 10), 10),
     peakFreqValues      |-> <<RDiv(8 * PUnit, 10), RDiv(12 * PUnit, 10), RDiv(18 * PUnit, 10),
                               RDiv(25 * PUnit, 10), RDiv(35 * PUnit, 10), 5 * PUnit,
                               7 * PUnit, 10 * PUnit, 14 * PUnit, 18 * PUnit>>,
     bandwidthValues     |-> <<RDiv(80 * Unit, 100), RDiv(105 * Unit, 100), RDiv(130 * Unit, 100),
                               RDiv(160 * Unit, 100), RDiv(195 * Unit, 100)>>,
     truncationValues    |-> <<RDiv(10 * Unit, 10), RDiv(14 * Unit, 10), RDiv(18 * Unit, 10),
                               RDiv(22 * Unit, 10), RDiv(26 * Unit, 10)>>,
     stimFreqs           |-> <<RDiv(50 * PUnit, 100), RDiv(75 * PUnit, 100), 1 * PUnit,
                               RDiv(125 * PUnit, 100), RDiv(150 * PUnit, 100),
                               RDiv(175 * PUnit, 100), 2 * PUnit, RDiv(25 * PUnit, 10),
                               3 * PUnit, RDiv(35 * PUnit, 10), 4 * PUnit, RDiv(45 * PUnit, 10),
                               5 * PUnit, 6 * PUnit, 8 * PUnit, 12 * PUnit, 16 * PUnit,
                               24 * PUnit>>,
     stimLogContrasts    |-> Linspace(-3 * Unit, 0, 30),
     robustLikelihoodMix |-> RDiv(3 * PUnit, 100),
     boundarySigmaLogC   |-> RDiv(2 * Unit, 10),
     priorMeans          |-> [peakGain |-> RDiv(18 * Unit, 10), logPeakFreq |-> RDiv(602 * Unit, 1000),
                              bandwidth |-> RDiv(13 * Unit, 10), truncation |-> RDiv(18 * Unit, 10)],
     priorSDs            |-> [peakGain |-> RDiv(5 * Unit, 10), logPeakFreq |-> RDiv(3 * Unit, 10),
                              bandwidth |-> RDiv(3 * Unit, 10), truncation |-> RDiv(5 * Unit, 10)]]

\* DEFAULTS of the binary engine: numAFC 5 and no prior shape (uniform prior)
DEFAULTS_BINARY ==
    [k \in (DOMAIN DEFAULTS) \ {"priorMeans", "priorSDs"} |->
        IF k = "numAFC" THEN 5 ELSE DEFAULTS[k]]

\* const cfg = { ...DEFAULTS, ...options }
MergeOptions(defaults, options) ==
    [k \in (DOMAIN defaults) \cup (DOMAIN options) |->
        IF k \in DOMAIN options THEN options[k] ELSE defaults[k]]

(***************************************************************************)
(* CSF model function                                                      *)
(***************************************************************************)
logParabolaCSF(freq, g, f, b, d) ==
    LET safeFreq     == Max(RDiv(5 * PUnit, 100), freq)
        logF         == Log10(safeFreq)
        logPeak      == Log10(Max(RDiv(2 * PUnit, 10), f))
        delta        == logF - logPeak
        baseDrop     == Mul(Mul(Max(RDiv(2 * Unit, 10), b), delta), delta)
        delta2       == Mul(delta, delta)
        highFreqDrop == IF delta > 0
                        THEN Mul(Max(RDiv(2 * Unit, 10), d), Mul(delta2, delta2))
                        ELSE 0
    IN g - baseDrop - highFreqDrop

(***************************************************************************)
(* Construction                                                            *)
(***************************************************************************)
RECURSIVE Flatten(_)
Flatten(ss) == IF ss = << >> THEN << >> ELSE Head(ss) \o Flatten(Tail(ss))

\* the nested loops with the peak frequencies outermost and the gains second
BuildParamGrid_FreqMajor(cfg) ==
    LET keep(g, f, b, d) ==
            IF logParabolaCSF(MAX_HUMAN_CUTOFF_CPD, g, f, b, d) <= 0
            THEN <<[g |-> g, f |-> f, b |-> b, d |-> d]>> ELSE << >>
        G == cfg.peakGainValues
        F == cfg.peakFreqValues
        B == cfg.bandwidthValues
        D == cfg.truncationValues
    IN Flatten([i2 \in 1..Len(F) |->
         Flatten([i1 \in 1..Len(G) |->
           Flatten([i3 \in 1..Len(B) |->
             Flatten([i4 \in 1..Len(D) |-> keep(G[i1], F[i2], B[i3], D[i4])])])])])

\* the four nested loops over the candidate lists, with the 60 cpd filter
BuildParamGrid(cfg) ==
    LET keep(g, f, b, d) ==
            IF logParabolaCSF(MAX_HUMAN_CUTOFF_CPD, g, f, b, d) <= 0
            THEN <<[g |-> g, f |-> f, b |-> b, d |-> d]>> ELSE << >>
        G == cfg.peakGainValues
        F == cfg.peakFreqValues
        B == cfg.bandwidthValues
        D == cfg.truncationValues
    IN Flatten([i1 \in 1..Len(G) |->
         Flatten([i2 \in 1..Len(F) |->
           Flatten([i3 \in 1..Len(B) |->
             Flatten([i4 \in 1..Len(D) |-> keep(G[i1], F[i2], B[i3], D[i4])])])])])

BuildStimGrid(cfg) ==
    Flatten([i \in 1..Len(cfg.stimFreqs) |->
        [j \in 1..Len(cfg.stimLogContrasts) |->
            [freq |-> cfg.stimFreqs[i], logContrast |-> cfg.stimLogContrasts[j]]]])

\* Gaussian-weighted prior of the graded engine, normalised by its sum
GaussianPrior(paramGrid, pm, ps) ==
    LET z(a, m, sd) == RDiv((a - m) * Unit, sd)
        sq(x) == Mul(x, x)
        w == [h \in 1..Len(paramGrid) |->
                LET p == paramGrid[h]
                    zG == z(p.g, pm.peakGain, ps.peakGain)
                    zF == z(Log10(p.f), pm.logPeakFreq, ps.logPeakFreq)
                    zB == z(p.b, pm.bandwidth, ps.bandwidth)
                    zD == z(p.d, pm.truncation, ps.truncation)
                IN Exp(-((sq(zG) + sq(zF) + sq(zB) + sq(zD)) \div 2))]
        priorSum == SumSeq(w)
    IN [h \in 1..Len(paramGrid) |-> DivDigits(w[h], priorSum, 4)]

\* new Float64Array(nParams).fill(1 / nParams)
UniformPrior(nParams) == [h \in 1..nParams |-> PUnit \div nParams]

\* the logistic psychometric function of the margin x, PUnit-scaled
Logistic(slopeParam, x) == (PUnit * PUnit) \div (PUnit + Exp(-Mul(slopeParam, x)))

Clamp(p) == Max(RDiv(1 * PUnit, 1000), Min(RDiv(999 * PUnit, 1000), p))

\* _precompute of the graded engine: the clamped raw detection probability psi
PrecomputePsi(paramGrid, stimGrid, slopeParam) ==
    [h \in 1..Len(paramGrid) |->
        [s \in 1..Len(stimGrid) |->
            LET p       == paramGrid[h]
                stim    == stimGrid[s]
                logSens == logParabolaCSF(stim.freq, p.g, p.f, p.b, p.d)
                x       == logSens - (-stim.logContrast)
            IN Clamp(Logistic(slopeParam, x))]]

\* _precompute of the binary engine: the clamped probability of a correct answer
PrecomputePCorrect(paramGrid, stimGrid, slopeParam, gamma, lapse) ==
    [h \in 1..Len(paramGrid) |->
        [s \in 1..Len(stimGrid) |->
            LET p       == paramGrid[h]
                stim    == stimGrid[s]
                logSens == logParabolaCSF(stim.freq, p.g, p.f, p.b, p.d)
                x       == logSens - (-stim.logContrast)
                psi     == Logistic(slopeParam, x)
                pC      == gamma + PMul(PUnit - gamma - lapse, psi)
            IN Clamp(pC)]]

\* new QCSFEngine(options); variant names the source file of the class
NewEngine(variant, options) ==
    LET cfg       == MergeOptions(IF variant = "graded" THEN DEFAULTS ELSE DEFAULTS_BINARY, options)
        isYesNo   == cfg.numAFC <= 1
        gamma     == IF isYesNo THEN cfg.falseAlarmRate ELSE PUnit \div cfg.numAFC
        paramGrid == BuildParamGrid(cfg)
        stimGrid  == BuildStimGrid(cfg)
    IN [variant             |-> variant,
        numAFC              |-> cfg.numAFC,
        isYesNo             |-> isYesNo,
        gamma               |-> gamma,
        lapse               |-> cfg.lapse,
        slopeParam          |-> cfg.psychometricSlope,
        robustLikelihoodMix |-> cfg.robustLikelihoodMix,
        boundarySigmaLogC   |-> cfg.boundarySigmaLogC,
        paramGrid           |-> paramGrid,
        nParams             |-> Len(paramGrid),
        stimGrid            |-> stimGrid,
        nStim               |-> Len(stimGrid),
        prior               |-> IF variant = "graded"
                                THEN GaussianPrior(paramGrid, cfg.priorMeans, cfg.priorSDs)
                                ELSE UniformPrior(Len(paramGrid)),
        matrix              |-> IF variant = "graded"
                                THEN PrecomputePsi(paramGrid, stimGrid, cfg.psychometricSlope)
                                ELSE PrecomputePCorrect(paramGrid, stimGrid, cfg.psychometricSlope,
                                                        gamma, cfg.lapse),
        trialCount          |-> 0,
        history             |-> << >>,
        freqTrialCounts     |-> << >>]

(***************************************************************************)
(* The Gabor mode (createGaborYesNoMode).  checkAnswer returns a JavaScript  *)
(* number: Num(v) for the integer v, or NaN.                                 *)
(***************************************************************************)
Num(v) == [nan |-> FALSE, value |-> v]
NaN    == [nan |-> TRUE, value |-> 0]

ORIENTATIONS_6 == <<0, 30, 60, 90, 120, 150>>

\* keys: [...] of the mode
GaborKeys == <<"12oclock", "1oclock", "2oclock", "3oclock", "4oclock", "5oclock", "none">>

\* const map = { '12oclock': 0, ... } of checkAnswer
AnswerMap ==
    [k \in {"12oclock", "1oclock", "2oclock", "3oclock", "4oclock", "5oclock"} |->
        CASE k = "12oclock" -> 0
          [] k = "1oclock"  -> 30
          [] k = "2oclock"  -> 60
          [] k = "3oclock"  -> 90
          [] k = "4oclock"  -> 120
          [] k = "5oclock"  -> 150]

\* property names every object literal inherits from Object.prototype
ObjectPrototypeNames ==
    {"constructor", "toString", "toLocaleString", "valueOf", "hasOwnProperty",
     "isPrototypeOf", "propertyIsEnumerable", "__proto__"}

\* map[response]: an own property is its number, an inherited one is a function or
\* an object, any other name is undefined
AnswerMapGet(response) ==
    IF response \in DOMAIN AnswerMap THEN [kind |-> "number", value |-> AnswerMap[response]]
    ELSE IF response \in ObjectPrototypeNames THEN [kind |-> "object", value |-> 0]
    ELSE [kind |-> "undefined", value |-> 0]

Abs(x) == IF x < 0 THEN -x ELSE x

\* Math.round(x / 30) for an integer x >= 0: a half rounds up
RoundSteps(x) == (2 * x + 30) \div 60

\* checkAnswer(response) with the closure variable currentAngle as angle.  The
\* difference of a number and a function or object is NaN, and so are its
\* Math.abs, Math.min and Math.round
checkAnswer(angle, response) ==
    IF response = "none" THEN Num(-1)
    ELSE LET respAngle == AnswerMapGet(response)
         IN IF respAngle.kind = "undefined" THEN Num(-1)
            ELSE IF respAngle.kind # "number" THEN NaN
            ELSE LET diff    == Abs(angle - respAngle.value)
                     angDist == Min(diff, 180 - diff)
                 IN Num(RoundSteps(angDist))

(***************************************************************************)
(* Estimates and derived metrics.  A method is an operator on the engine   *)
(* record e ("this"); the methods that do not assign to this return their  *)
(* result only.                                                            *)
(***************************************************************************)
\* getEstimate with >= in the comparison: the last maximum instead of the first
getEstimate_LastMax(e) ==
    LET RECURSIVE bestAfter(_)
        bestAfter(h) ==
            IF h = 0 THEN 0
            ELSE LET b == bestAfter(h - 1)
                 IN IF e.prior[h + 1] >= e.prior[b + 1] THEN h ELSE b
        best == bestAfter(Max(e.nParams - 1, 0))
        p    == e.paramGrid[best + 1]
    IN IF e.nParams = 0 THEN Threw
       ELSE [peakGain |-> p.g, peakFreq |-> p.f, bandwidth |-> p.b, truncation |-> p.d]

getEstimate(e) ==
    LET RECURSIVE bestAfter(_)
        \* the value of best after the iteration for h (h = 0: before the loop)
        bestAfter(h) ==
            IF h = 0 THEN 0
            ELSE LET b == bestAfter(h - 1)
                 IN IF e.prior[h + 1] > e.prior[b + 1] THEN h ELSE b
        best == bestAfter(Max(e.nParams - 1, 0))
        p    == e.paramGrid[best + 1]
    IN IF e.nParams = 0 THEN Threw  \* paramGrid[0] is undefined: p.g throws a TypeError
       ELSE [peakGain |-> p.g, peakFreq |-> p.f, bandwidth |-> p.b, truncation |-> p.d]

getExpectedEstimate(e) ==
    LET H  == 1..e.nParams
        gM == RDiv(SumSeq([h \in H |-> e.prior[h] * e.paramGrid[h].g]), PUnit)
        fM == RDiv(SumSeq([h \in H |-> e.prior[h] * Log10(e.paramGrid[h].f)]), PUnit)
        bM == RDiv(SumSeq([h \in H |-> e.prior[h] * e.paramGrid[h].b]), PUnit)
        dM == RDiv(SumSeq([h \in H |-> e.prior[h] * e.paramGrid[h].d]), PUnit)
    IN [peakGain |-> gM, peakFreq |-> Pow10(fM), bandwidth |-> bM, truncation |-> dM]

evaluateCSF(e, freq, params) ==
    LET p == IF params # Null THEN params ELSE getExpectedEstimate(e)
    IN logParabolaCSF(freq, p.peakGain, p.peakFreq, p.bandwidth, p.truncation)

\* the number of points of the curve: for (let i = 0; i < 200; i++)
CURVE_POINTS == 200

\* getCSFCurve(params): f = 10^(-0.3 + i * 2.0 / 199) for i = 0..199
getCSFCurve(e, params) ==
    LET p == IF params # Null THEN params ELSE getExpectedEstimate(e)
    IN [k \in 1..CURVE_POINTS |->
          LET f == Pow10(-RDiv(3 * Unit, 10) + RDiv((k - 1) * 2 * Unit, 199))
          IN [freq |-> f, logS |-> evaluateCSF(e, f, p)]]

\* computeAULCSF(params): the trapezoid rule over N + 1 points of log10 f between
\* log10(0.5) and log10(36), counting the points where logS > 0; the end points
\* weigh one half.  The sum is taken over twice the weights and scaled at the end.
computeAULCSF(e, params) ==
    LET p      == IF params # Null THEN params ELSE getExpectedEstimate(e)
        N      == 500
        logMin == Log10(RDiv(5 * PUnit, 10))
        logMax == Log10(36 * PUnit)
        term2(i) == LET f    == Pow10(logMin + RDiv(i * (logMax - logMin), N))
                        logS == evaluateCSF(e, f, p)
                    IN IF logS > 0 THEN (IF i = 0 \/ i = N THEN logS ELSE 2 * logS) ELSE 0
        sum2   == SumSeq([k \in 1..(N + 1) |-> term2(k - 1)] @@ << >>)
    IN RDiv(RDiv(sum2 * 10, 2 * N) * (logMax - logMin), 10 * Unit)

\* this.freqTrialCounts.get(freq) || 0
MapGet(m, k) == IF k \in DOMAIN m THEN m[k] ELSE 0

\* this.freqTrialCounts.set(freq, n)
MapSet(m, k, v) == [x \in (DOMAIN m) \cup {k} |-> IF x = k THEN v ELSE m[x]]

\* FREQ_BANDS.find(b => freq >= b.min && freq < b.max) || null, as the index of the
\* band in FREQ_BANDS (1-based); 0 stands for null
getBand(freq) ==
    LET hits == {i \in 1..Len(FREQ_BANDS) : freq >= FREQ_BANDS[i].min /\ freq < FREQ_BANDS[i].max}
    IN IF hits = {} THEN 0 ELSE CHOOSE i \in hits : \A j \in hits : i <= j

RECURSIVE SumCounts(_, _)
SumCounts(m, keys) ==
    IF keys = {} THEN 0
    ELSE LET k == CHOOSE x \in keys : TRUE IN m[k] + SumCounts(m, keys \ {k})

\* for each band, the sum of the counters of the frequencies inside it
getBandCounts(e) ==
    [i \in 1..Len(FREQ_BANDS) |->
        SumCounts(e.freqTrialCounts,
                  {f \in DOMAIN e.freqTrialCounts :
                       f >= FREQ_BANDS[i].min /\ f < FREQ_BANDS[i].max})]

(***************************************************************************)
(* Response models                                                         *)
(***************************************************************************)
\* update of the graded engine with det = psi, the lapse rate left out
pObsRawGraded_NoLapse(psi, angularDistance) ==
    LET K         == GRADED_KERNEL
        lam       == GRADED_LAPSE
        g         == GRADED_GUESS_RATE
        g6        == RDiv(g, 6)
        oneMinusG == PUnit - g
        det       == psi
        blind     == PUnit - psi
    IN IF angularDistance >= 0 /\ angularDistance <= 3
       THEN PMul(det, K[angularDistance + 1]) + PMul(blind, g6)
       ELSE PMul(psi, lam) + PMul(blind, oneMinusG)

\* graded engine: P(observation | psi).  angularDistance 0..3 reads the
\* kernel; every other value takes the "none" branch.
pObsRawGraded(psi, angularDistance) ==
    LET K         == GRADED_KERNEL
        lam       == GRADED_LAPSE
        g         == GRADED_GUESS_RATE
        g6        == RDiv(g, 6)
        oneMinusG == PUnit - g
        det       == PMul(psi, PUnit - lam)
        blind     == PUnit - psi
    IN IF angularDistance >= 0 /\ angularDistance <= 3
       THEN PMul(det, K[angularDistance + 1]) + PMul(blind, g6)
       ELSE PMul(psi, lam) + PMul(blind, oneMinusG)

\* binary engine: detected ? pCH : (1 - pCH)
pObsRawBinary(pCH, detected) == IF detected THEN pCH ELSE PUnit - pCH

\* the outcome probabilities with the whole guess rate g on every orientation
pOutcomeGraded_UndividedGuess(psi, o) ==
    LET K         == GRADED_KERNEL
        lam       == GRADED_LAPSE
        g         == GRADED_GUESS_RATE
        oneMinusG == PUnit - g
        det       == PMul(psi, PUnit - lam)
        blind     == PUnit - psi
    IN IF o < 4
       THEN PMul(det, K[o + 1]) + PMul(blind, g)
       ELSE PMul(psi, lam) + PMul(blind, oneMinusG)

\* selectStimulus of the graded engine: P(outcome o | psi) of one orientation at
\* distance o for o = 0..3, of "none" for o = 4
pOutcomeGraded(psi, o) ==
    LET K         == GRADED_KERNEL
        lam       == GRADED_LAPSE
        g         == GRADED_GUESS_RATE
        g6        == RDiv(g, 6)
        oneMinusG == PUnit - g
        det       == PMul(psi, PUnit - lam)
        blind     == PUnit - psi
    IN IF o < 4
       THEN PMul(det, K[o + 1]) + PMul(blind, g6)
       ELSE PMul(psi, lam) + PMul(blind, oneMinusG)

\* the outcome index o = 0..4 of selectStimulus as a response value
OutcomeResponse(o) == IF o < 4 THEN o ELSE -1

(***************************************************************************)
(* Stimulus selection                                                      *)
(***************************************************************************)
\* 5-outcome expected posterior entropy of stimulus s (0-based), graded engine
BaseEntropyGraded(e, s) ==
    LET H  == 1..e.nParams
        skip(h) == e.prior[h] < 1                       \* if (ph < 1e-30) continue
        pOH == [h \in H |-> [o \in 0..4 |->
                    pOutcomeGraded(e.matrix[h][s + 1], o)] @@ << >>] @@ << >>
        marginals == [o \in 0..4 |->
                        SumSeq([h \in H |-> IF skip(h) THEN 0 ELSE e.prior[h] * pOH[h][o]])]
                     @@ << >>
        mults == <<1, 2, 2, 1, 1>>
        hO(o) == SumSeq([h \in H |->
                    IF skip(h) THEN 0
                    ELSE LET posterior == DivDigits(e.prior[h] * pOH[h][o], marginals[o], 4)
                         IN IF posterior > 0 THEN NegPLog2(posterior) ELSE 0])
        term(o) == LET marg == marginals[o] * mults[o + 1]
                   IN IF marg < 1 THEN 0              \* if (marg < 1e-30) continue
                      ELSE RDiv(RDiv(marg, PUnit) * hO(o), PUnit)
    IN SumSeq([i \in 1..5 |-> term(i - 1)])

\* 2-outcome expected posterior entropy of stimulus s (0-based), binary engine
BaseEntropyBinary(e, s) ==
    LET H  == 1..e.nParams
        pCorr == SumSeq([h \in H |-> e.matrix[h][s + 1] * e.prior[h]])
        pInc  == PUnit * PUnit - pCorr
        hC == SumSeq([h \in H |->
                  IF e.prior[h] < 1 \/ ~(pCorr > 0) THEN 0
                  ELSE LET n == DivDigits(e.prior[h] * e.matrix[h][s + 1], pCorr, 4)
                       IN IF n > 0 THEN NegPLog2(n) ELSE 0])
        hI == SumSeq([h \in H |->
                  IF e.prior[h] < 1 \/ ~(pInc > 0) THEN 0
                  ELSE LET n == DivDigits(e.prior[h] * (PUnit - e.matrix[h][s + 1]), pInc, 4)
                       IN IF n > 0 THEN NegPLog2(n) ELSE 0])
    IN RDiv(RDiv(pCorr, PUnit) * hC, PUnit) + RDiv(RDiv(pInc, PUnit) * hI, PUnit)

BaseEntropy(e, s) ==
    IF e.variant = "graded" THEN BaseEntropyGraded(e, s) ELSE BaseEntropyBinary(e, s)

\* exp(-0.5 * z^2) of a Unit-scaled z; beyond |z| = 10 the result is below the resolution
Gauss(z) == LET zc == Max(-10 * Unit, Min(10 * Unit, z)) IN Exp(-(Mul(zc, zc) \div 2))

BoundaryWeight(e, s, pHat) ==
    LET stim == e.stimGrid[s + 1]
        predictedBoundaryLogC == -evaluateCSF(e, stim.freq, pHat)
        boundaryDelta == stim.logContrast - predictedBoundaryLogC
    IN Gauss(RDiv(boundaryDelta * Unit, e.boundarySigmaLogC))

FreqWeight(freq) ==
    PUnit + RDiv(15 * Gauss(RDiv((Log10(freq) - LOG4) * Unit, RDiv(55 * Unit, 100))), 10)

\* the diversity penalty computed from the number of all trials
DiversityPenalty2_AllTrials(e, freq) == 2 + 3 * e.trialCount

\* twice the diversity penalty 1 + freqCount * 1.5
DiversityPenalty2(e, freq) == 2 + 3 * MapGet(e.freqTrialCounts, freq)

\* the coverage boost with bands that include their upper edge
CoverageBoost_ClosedBands(freq, bandCounts) ==
    LET hits == {i \in 1..Len(FREQ_BANDS) : freq >= FREQ_BANDS[i].min /\ freq <= FREQ_BANDS[i].max}
        band == IF hits = {} THEN 0 ELSE CHOOSE i \in hits : \A j \in hits : i <= j
    IN IF band # 0 /\ bandCounts[band] < FREQ_BANDS[band].minTrials THEN 3 ELSE 1

CoverageBoost(freq, bandCounts) ==
    LET band == getBand(freq)
    IN IF band # 0 /\ bandCounts[band] < FREQ_BANDS[band].minTrials THEN 3 ELSE 1

\* ee[s] = baseEntropy * diversityPenalty / ((1 + boundaryWeight) * freqWeight * coverageBoost),
\* PUnit-scaled
Score(e, s, pHat, bandCounts) ==
    LET stim == e.stimGrid[s + 1]
        den  == PMul(PUnit + BoundaryWeight(e, s, pHat), FreqWeight(stim.freq))
                    * CoverageBoost(stim.freq, bandCounts)
    IN DivDigits(BaseEntropy(e, s) * DiversityPenalty2(e, stim.freq), 2 * den, 4)

\* the ee array of selectStimulus
Scores(e) ==
    LET pHat == getExpectedEstimate(e)
        bandCounts == getBandCounts(e)
    IN [i \in 1..e.nStim |-> Score(e, i - 1, pHat, bandCounts)] @@ << >>

RECURSIVE BestIdxLoop_LastMin(_, _, _, _)
\* the loop with the comparison ee[s] <= ee[bestIdx]: the last of several minima wins
BestIdxLoop_LastMin(ee, bestIdx, s, last) ==
    IF s > last THEN bestIdx
    ELSE IF ee[s + 1] <= ee[bestIdx + 1] THEN BestIdxLoop_LastMin(ee, s, s + 1, last)
         ELSE BestIdxLoop_LastMin(ee, bestIdx, s + 1, last)

RECURSIVE BestIdxLoop(_, _, _, _)
\* for (; s <= last; s++) if (ee[s] < ee[bestIdx]) bestIdx = s;
\* the value of bestIdx after the iterations s..last, entered with bestIdx
BestIdxLoop(ee, bestIdx, s, last) ==
    IF s > last THEN bestIdx
    ELSE IF ee[s + 1] < ee[bestIdx + 1] THEN BestIdxLoop(ee, s, s + 1, last)
         ELSE BestIdxLoop(ee, bestIdx, s + 1, last)

RECURSIVE BestIdxAfter(_, _)
\* let bestIdx = 0; for (s = 1; s < nStim; s++) if (ee[s] < ee[bestIdx]) bestIdx = s;
\* the value of bestIdx after the iteration for s (s = 0: before the loop); the
\* iterations are run in stretches of 16, each entered with the bestIdx of the one before
BestIdxAfter(ee, s) ==
    IF s = 0 THEN 0
    ELSE LET first == Max(1, s - 15)
         IN BestIdxLoop(ee, BestIdxAfter(ee, first - 1), first, s)

\* selectStimulus returning 10^(-logContrast), the sensitivity, as the contrast
selectStimulus_InverseContrast(e) ==
    LET ee      == Scores(e)
        bestIdx == IF Len(ee) = 0 THEN 0 ELSE BestIdxAfter(ee, Len(ee) - 1)
        stim    == e.stimGrid[bestIdx + 1]
    IN [frequency   |-> stim.freq,
        contrast    |-> Pow10(-stim.logContrast),
        logContrast |-> stim.logContrast,
        stimIndex   |-> bestIdx]

\* ee is filled for the whole grid, then the loop finds bestIdx (with an empty grid
\* the loop does not run and bestIdx stays 0)
selectStimulus(e) ==
    LET ee      == Scores(e)
        bestIdx == IF Len(ee) = 0 THEN 0 ELSE BestIdxAfter(ee, Len(ee) - 1)
        stim    == e.stimGrid[bestIdx + 1]
    IN [frequency   |-> stim.freq,
        contrast    |-> Pow10(stim.logContrast),
        logContrast |-> stim.logContrast,
        stimIndex   |-> bestIdx]

(***************************************************************************)
(* Posterior update                                                        *)
(***************************************************************************)
\* the probability multiplied into the posterior for hypothesis h (1-based)
pObs(e, h, stimIndex, response) ==
    LET mix == e.robustLikelihoodMix
    IN IF e.variant = "graded"
       THEN PMul(PUnit - mix, pObsRawGraded(e.matrix[h][stimIndex + 1], response))
              + PMul(mix, PUnit \div 7)
       ELSE PMul(PUnit - mix, pObsRawBinary(e.matrix[h][stimIndex + 1], response))
              + PMul(mix, PUnit \div 2)

\* the record pushed on history
HistoryRecord(e, trial, stimIndex, response) ==
    IF e.variant = "graded"
    THEN [trial |-> trial, stimIndex |-> stimIndex, angularDistance |-> response]
    ELSE [trial |-> trial, stimIndex |-> stimIndex, correct |-> response]

\* the products with every product below 0.01 pruned to 0
Products_Pruned(e, stimIndex, response) ==
    [h \in 1..e.nParams |->
        LET w == e.prior[h] * pObs(e, h, stimIndex, response)
        IN IF w < (PUnit * PUnit) \div 100 THEN 0 ELSE w]

\* the pre-normalisation products prior[h] * pObs, PUnit^2-scaled
Products(e, stimIndex, response) ==
    [h \in 1..e.nParams |-> e.prior[h] * pObs(e, h, stimIndex, response)]

\* update without the renormalisation loop
update_Unnormalised(e, stimIndex, response) ==
    LET w     == Products(e, stimIndex, response)
        freq  == e.stimGrid[stimIndex + 1].freq
    IN [e EXCEPT
          !.prior = [h \in 1..e.nParams |-> RDiv(w[h], PUnit)],
          !.freqTrialCounts = MapSet(@, freq, MapGet(@, freq) + 1),
          !.trialCount = @ + 1,
          !.history = Append(@, HistoryRecord(e, e.trialCount + 1, stimIndex, response))]

\* update counting the trial under the stimulus index instead of its frequency
update_CountsByIndex(e, stimIndex, response) ==
    LET w     == Products(e, stimIndex, response)
        total == SumSeq(w)
    IN [e EXCEPT
          !.prior = IF total > 0
                    THEN [h \in 1..e.nParams |-> DivDigits(w[h], total, 4)]
                    ELSE [h \in 1..e.nParams |-> RDiv(w[h], PUnit)],
          !.freqTrialCounts = MapSet(@, stimIndex, MapGet(@, stimIndex) + 1),
          !.trialCount = @ + 1,
          !.history = Append(@, HistoryRecord(e, e.trialCount + 1, stimIndex, response))]

\* update storing pObs in the likelihood cache entry it has just read
update_WritesCache(e, stimIndex, response) ==
    LET w     == Products(e, stimIndex, response)
        total == SumSeq(w)
        freq  == e.stimGrid[stimIndex + 1].freq
    IN [e EXCEPT
          !.matrix = [h \in 1..e.nParams |->
                         [e.matrix[h] EXCEPT ![stimIndex + 1] = pObs(e, h, stimIndex, response)]],
          !.prior = IF total > 0
                    THEN [h \in 1..e.nParams |-> DivDigits(w[h], total, 4)]
                    ELSE [h \in 1..e.nParams |-> RDiv(w[h], PUnit)],
          !.freqTrialCounts = MapSet(@, freq, MapGet(@, freq) + 1),
          !.trialCount = @ + 1,
          !.history = Append(@, HistoryRecord(e, e.trialCount + 1, stimIndex, response))]

\* update that pushes the history record before it increments trialCount
update_PushBeforeIncrement(e, stimIndex, response) ==
    LET w     == Products(e, stimIndex, response)
        total == SumSeq(w)
        freq  == e.stimGrid[stimIndex + 1].freq
    IN [e EXCEPT
          !.prior = IF total > 0
                    THEN [h \in 1..e.nParams |-> DivDigits(w[h], total, 4)]
                    ELSE [h \in 1..e.nParams |-> RDiv(w[h], PUnit)],
          !.freqTrialCounts = MapSet(@, freq, MapGet(@, freq) + 1),
          !.trialCount = @ + 1,
          !.history = Append(@, HistoryRecord(e, e.trialCount, stimIndex, response))]

\* update(stimIndex, response): the engine after the call
update(e, stimIndex, response) ==
    LET w     == Products(e, stimIndex, response)
        total == SumSeq(w)
        freq  == e.stimGrid[stimIndex + 1].freq
    IN [e EXCEPT
          !.prior = IF total > 0
                    THEN [h \in 1..e.nParams |-> DivDigits(w[h], total, 4)]
                    ELSE [h \in 1..e.nParams |-> RDiv(w[h], PUnit)],
          !.freqTrialCounts = MapSet(@, freq, MapGet(@, freq) + 1),
          !.trialCount = @ + 1,
          !.history = Append(@, HistoryRecord(e, e.trialCount + 1, stimIndex, response))]

(***************************************************************************)
(* Method calls as state transformers: the engine after the call and the   *)
(* value returned.  Only update assigns to this.                           *)
(***************************************************************************)
\* selectStimulus that counts the frequency it selects
Call_selectStimulus_CountsSelection(e) ==
    LET r == selectStimulus(e)
    IN [engine |-> [e EXCEPT !.freqTrialCounts =
                        MapSet(@, r.frequency, MapGet(@, r.frequency) + 1)],
        result |-> r]

Call_selectStimulus(e) == [engine |-> e, result |-> selectStimulus(e)]

Call_update(e, stimIndex, response) ==
    [engine |-> update(e, stimIndex, response), result |-> Null]

Call_getEstimate(e) == [engine |-> e, result |-> getEstimate(e)]

\* getExpectedEstimate accumulating w * p.g into the posterior array
Call_getExpectedEstimate_InPlace(e) ==
    [engine |-> [e EXCEPT !.prior = [h \in 1..e.nParams |->
                                        RDiv(e.prior[h] * e.paramGrid[h].g, Unit)]],
     result |-> getExpectedEstimate(e)]

Call_getExpectedEstimate(e) == [engine |-> e, result |-> getExpectedEstimate(e)]

Call_getCSFCurve(e) == [engine |-> e, result |-> getCSFCurve(e, Null)]

Call_evaluateCSF(e, freq) == [engine |-> e, result |-> evaluateCSF(e, freq, Null)]

Call_computeAULCSF(e) == [engine |-> e, result |-> computeAULCSF(e, Null)]

\* freqTrialCounts as one map of the module, shared by all the instances
Store_SharedCounts(heap, i, e) ==
    [j \in DOMAIN heap |->
        IF j = i THEN e
        ELSE IF heap[j] = Null THEN Null
        ELSE [heap[j] EXCEPT !.freqTrialCounts = e.freqTrialCounts]]

\* prior, trialCount, history and freqTrialCounts are fields of the instance: a
\* method called on instance i writes the fields of i only
Store(heap, i, e) == [heap EXCEPT ![i] = e]

(***************************************************************************)
(* Configurations and inputs of the model                                  *)
(***************************************************************************)
\* number of trials a freely driven engine is followed for
MaxTrials == 2

\* number of trials of a scripted run: one more than the sum of the bands' quotas
RunLength == 32

\* the hypothesis lists of the model's configurations: 2 x 2 x 1 x 1 candidates,
\* of which (g = 2.0, f = 10) fails the 60 cpd filter
SmallParams ==
    [peakGainValues   |-> <<1 * Unit, 2 * Unit>>,
     peakFreqValues   |-> <<RDiv(25 * PUnit, 10), 10 * PUnit>>,
     bandwidthValues  |-> <<RDiv(13 * Unit, 10)>>,
     truncationValues |-> <<RDiv(18 * Unit, 10)>>]

\* a 2 x 2 stimulus grid
SmallOptions ==
    MergeOptions(SmallParams,
        [stimFreqs        |-> <<2 * PUnit, 16 * PUnit>>,
         stimLogContrasts |-> <<-1 * Unit, 0>>])

\* the default 18 frequencies with the log-contrasts -3, -2, -1, 0
RunOptions ==
    MergeOptions(SmallParams, [stimLogContrasts |-> <<-3 * Unit, -2 * Unit, -1 * Unit, 0>>])

\* a configuration all of whose hypotheses fail the 60 cpd filter: the hypothesis
\* grid is empty
EmptyGridOptions ==
    MergeOptions(SmallOptions,
        [peakGainValues |-> <<2 * Unit>>, peakFreqValues |-> <<10 * PUnit>>])

\* the responses a caller of the graded engine passes: "none", a modelled distance,
\* and an integer outside the modelled outcomes
GradedResponses == {-1, 0}
UnmodelledResponses == {4}

ResponsesOf(e) ==
    IF e.variant = "graded" THEN GradedResponses \cup UnmodelledResponses ELSE BOOLEAN

\* the candidate lists the constructor is given when the grids are checked: lists
\* of one to three values, sorted or not, whose tuples partly fail the 60 cpd filter
GainLists ==
    {<<1 * Unit>>, <<2 * Unit>>, <<1 * Unit, 2 * Unit>>,
     <<RDiv(28 * Unit, 10), RDiv(5 * Unit, 10), RDiv(15 * Unit, 10)>>}
PeakFreqLists ==
    {<<RDiv(25 * PUnit, 10)>>, <<10 * PUnit>>, <<RDiv(25 * PUnit, 10), 10 * PUnit>>,
     <<18 * PUnit, RDiv(8 * PUnit, 10), 5 * PUnit>>}
BandwidthLists == {<<RDiv(13 * Unit, 10)>>, <<RDiv(8 * Unit, 10), RDiv(195 * Unit, 100)>>}
TruncationLists == {<<RDiv(18 * Unit, 10)>>, <<RDiv(26 * Unit, 10), 1 * Unit>>}

\* the options built from them, on a 2 x 2 stimulus grid that reaches the lowest
\* configured contrast
GridOptions ==
    {[peakGainValues   |-> G,
      peakFreqValues   |-> F,
      bandwidthValues  |-> B,
      truncationValues |-> D,
      stimFreqs        |-> <<2 * PUnit, 16 * PUnit>>,
      stimLogContrasts |-> <<-3 * Unit, 0>>] :
        G \in GainLists, F \in PeakFreqLists, B \in BandwidthLists, D \in TruncationLists}

\* the frequencies (cpd) evaluateCSF is called at
MetricFreqs == {4 * PUnit, 60 * PUnit}

\* the numbers of alternatives of the binary engine's configurations: yes/no,
\* two alternatives, and the default
AFCChoices == {1, 2, 5}

\* configurations with tied hypotheses: 2 x 1 x 1 x 2 hypotheses (those that differ in the
\* truncation only have the same sensitivity at both stimulus frequencies), a
\* 2 x 2 stimulus grid that reaches down to log-contrast -3, and each number of
\* alternatives
TieOptions ==
    {[peakGainValues   |-> <<1 * Unit, 2 * Unit>>,
      peakFreqValues   |-> <<RDiv(25 * PUnit, 10)>>,
      bandwidthValues  |-> <<RDiv(13 * Unit, 10)>>,
      truncationValues |-> <<1 * Unit, RDiv(18 * Unit, 10)>>,
      stimFreqs        |-> <<2 * PUnit, 16 * PUnit>>,
      stimLogContrasts |-> <<-3 * Unit, 0>>,
      numAFC           |-> n] : n \in AFCChoices}

\* keys that are not keys of the Gabor mode: a name no object has, and two names
\* every object inherits
UnknownKeys == {"6oclock", "toString", "constructor"}

\* the response sequences of the scripted runs: the same answer on every trial
\* ("none", or the largest distance), and the two alternating
RunResponses == {-1, 3}
Scripts ==
    {[k \in 1..RunLength |-> r] : r \in RunResponses}
        \cup {[k \in 1..RunLength |-> IF k % 2 = 1 THEN 3 ELSE -1]}

(***************************************************************************)
(* The application: src/app.js and src/results.js                          *)
(***************************************************************************)
\* const MAX_TRIALS = 50, DEBOUNCE_MS = 250
MAX_TRIALS == 50
DEBOUNCE_MS == 250

\* const TUT = [...]: the key each of the seven tutorial steps waits for
TUT == [k \in 1..7 |-> [key |-> GaborKeys[k]]]

\* new QCSFEngine({ numAFC: mode.numAFC, psychometricSlope: mode.psychometricSlope })
\* of startTest, for the Gabor mode (numAFC 7, slope 3.5), on the small grid
AppOptions ==
    MergeOptions(SmallOptions, [numAFC |-> 7, psychometricSlope |-> RDiv(35 * Unit, 10)])

\* the module-level variables of app.js when the page has loaded, and the record
\* of what the last handler did:
\*   sinceInput  min(performance.now() - lastInputTime, DEBOUNCE_MS)
\*   connected   host && host.connected
\*   sent        the types of the messages the last handler passed to host.send
\*   uncaught    the last handler ended in an exception nothing caught
\*   shown       the rank finish() displayed in the last handler, "" if it did
\*               not run
\*   params      the params of that result (lastResultParams)
\*   calls       the last two calls made to the engine created by the last
\*               startTest()
\*   finishes    the runs of finish() since the last startTest(), counted up to 2
AppLoaded ==
    [modeSet |-> FALSE, currentStim |-> Null,
     testComplete |-> FALSE, testStarted |-> FALSE, inTutorial |-> FALSE,
     inPreTest |-> FALSE, tutStep |-> 0, sinceInput |-> DEBOUNCE_MS,
     params |-> Null, shown |-> "", connected |-> FALSE,
     sent |-> {}, uncaught |-> FALSE, calls |-> << >>, finishes |-> 0]

\* a handler runs on w = [a: the variables of app.js, e: engine, angle: the
\* orientation the mode rendered last, pending: the statements it has still to run]
\* and leaves its successor.  handleInput and beginTestAfterPreTest are written up
\* to their call of nextTrial(); the call and what follows it are left pending and
\* run by Continue

\* the value of a one-element set: S = {expression} computes the result of a
\* statement once, before the statements after it read it
Only(S) == CHOOSE x \in S : TRUE

\* function tx(msg) { if (host && host.connected) host.send(msg); }
tx(w, type) == IF w.a.connected THEN [w EXCEPT !.a.sent = @ \cup {type}] ELSE w

\* the engine calls kept for the record: the last two
Logged(calls, op, stimIndex) ==
    LET all == Append(calls, [op |-> op, stimIndex |-> stimIndex])
    IN IF Len(all) > 2 THEN Tail(all) ELSE all

\* the rank computeResult gives an AULCSF
RankOf(aulcsf) ==
    IF aulcsf > RDiv(35 * Unit, 10) THEN "SUPERIOR"
    ELSE IF aulcsf > RDiv(28 * Unit, 10) THEN "ABOVE AVERAGE"
    ELSE IF aulcsf > 2 * Unit THEN "NORMAL"
    ELSE IF aulcsf > RDiv(13 * Unit, 10) THEN "BELOW AVERAGE"
    ELSE "IMPAIRED"

\* computeResult(engine) of results.js; the detail line and the curve are display
\* data and left out
computeResult(e) ==
    IF e = Null THEN Threw  \* engine.getEstimate() on null: TypeError
    ELSE Only({IF params = Threw THEN Threw
               ELSE Only({[aulcsf |-> aulcsf, rank |-> RankOf(aulcsf), params |-> params] :
                          aulcsf \in {computeAULCSF(e, params)}}) :
               params \in {getEstimate(e)}})

\* finish() without testComplete = true
finish_LeavesTestOpen(w) ==
    Only({Only({IF result.params = Null THEN [w1 EXCEPT !.a.uncaught = TRUE]
                ELSE tx(w1, "results") :
                w1 \in {[w EXCEPT !.a.finishes = Min(@ + 1, 2),
                                         !.a.params = result.params,
                                         !.a.shown = result.rank]}}) :
          result \in {Only({IF r = Threw
                            THEN [aulcsf |-> 0, rank |-> "ERROR", params |-> Null]
                            ELSE r : r \in {computeResult(w.e)}})}})

\* finish(): the argument of tx({ type: 'results', ..., peakSens:
\* Math.round(Math.pow(10, result.params.peakGain)), ... }) is evaluated before tx
\* is called, and reads a property of result.params
finish(w) ==
    Only({Only({IF result.params = Null THEN [w1 EXCEPT !.a.uncaught = TRUE]
                ELSE tx(w1, "results") :
                w1 \in {[w EXCEPT !.a.testComplete = TRUE,
                                         !.a.finishes = Min(@ + 1, 2),
                                         !.a.params = result.params,
                                         !.a.shown = result.rank]}}) :
          result \in {Only({IF r = Threw
                            THEN [aulcsf |-> 0, rank |-> "ERROR", params |-> Null]
                            ELSE r : r \in {computeResult(w.e)}})}})

\* nextTrial(): the exception of engine.selectStimulus() is caught and ends the
\* test; the exception of mode.render() is caught and ignored
nextTrial(w, angle) ==
    IF w.e = Null THEN finish(w)
    ELSE Only({[w EXCEPT !.a.currentStim = stim,
                         !.a.calls = Logged(@, "selectStimulus", stim.stimIndex),
                         !.angle = IF w.a.modeSet THEN angle ELSE @] :
               stim \in {selectStimulus(w.e)}})

\* beginTestAfterPreTest(): nextTrial(), then tx({ type: 'testStart' })
beginTestAfterPreTest(w) ==
    [w EXCEPT !.a.inPreTest = FALSE,
              !.a.testStarted = TRUE,
              !.a.inTutorial = FALSE,
              !.pending = <<"nextTrial", "testStart">>]

\* showPreTest()
showPreTest(w) == tx([w EXCEPT !.a.inPreTest = TRUE], "preTest")

\* renderTutStep(idx)
renderTutStep(w, idx) == tx([w EXCEPT !.a.tutStep = idx], "tutStep")

\* advanceTut(key)
advanceTut(w, key) ==
    IF key # TUT[w.a.tutStep + 1].key THEN w
    ELSE IF w.a.tutStep < Len(TUT) - 1 THEN renderTutStep(w, w.a.tutStep + 1)
    ELSE showPreTest(w)

\* startTest()
startTest(w) ==
    Only({renderTutStep(w1, 0) :
          w1 \in {[w EXCEPT !.e = NewEngine("graded", AppOptions),
                            !.a.modeSet = TRUE,
                            !.a.testComplete = FALSE,
                            !.a.testStarted = FALSE,
                            !.a.inTutorial = TRUE,
                            !.a.currentStim = Null,
                            !.a.calls = << >>,
                            !.a.finishes = 0]}})

\* handleInput(value) without the comparison of now - lastInputTime with DEBOUNCE_MS
handleInput_NoDebounce(w, value) ==
    IF w.a.testComplete THEN w
    ELSE IF w.a.inTutorial
    THEN Only({IF w1.a.testStarted \/ w1.a.inPreTest THEN [w1 EXCEPT !.a.inTutorial = FALSE]
               ELSE w1 : w1 \in {advanceTut(w, value)}})
    ELSE IF w.a.inPreTest THEN w
    ELSE IF ~w.a.testStarted \/ w.a.currentStim = Null \/ ~w.a.modeSet THEN w
    ELSE IF value \notin {GaborKeys[k] : k \in 1..Len(GaborKeys)} THEN w
    ELSE LET angularDistance == checkAnswer(w.angle, value)
             stimIndex       == w.a.currentStim.stimIndex
         IN Only({Only({IF w2.e.trialCount >= MAX_TRIALS THEN finish(w2)
                        ELSE [w2 EXCEPT !.pending = <<"nextTrial">>] :
                        w2 \in {tx(w1, "progress")}}) :
                  w1 \in {[w EXCEPT !.a.sinceInput = 0,
                                    !.e = update(w.e, stimIndex, angularDistance.value),
                                    !.a.calls = Logged(@, "update", stimIndex)]}})

\* handleInput(value).  engine.update() throws for no stimIndex that
\* selectStimulus() returned, so its catch branch is not taken
handleInput(w, value) ==
    IF w.a.testComplete THEN w
    ELSE IF w.a.inTutorial
    THEN Only({IF w1.a.testStarted \/ w1.a.inPreTest THEN [w1 EXCEPT !.a.inTutorial = FALSE]
               ELSE w1 : w1 \in {advanceTut(w, value)}})
    ELSE IF w.a.inPreTest THEN w
    ELSE IF ~w.a.testStarted \/ w.a.currentStim = Null \/ ~w.a.modeSet THEN w
    ELSE IF value \notin {GaborKeys[k] : k \in 1..Len(GaborKeys)} THEN w
    ELSE IF w.a.sinceInput < DEBOUNCE_MS THEN w
    ELSE LET angularDistance == checkAnswer(w.angle, value)
             stimIndex       == w.a.currentStim.stimIndex
         IN Only({Only({IF w2.e.trialCount >= MAX_TRIALS THEN finish(w2)
                        ELSE [w2 EXCEPT !.pending = <<"nextTrial">>] :
                        w2 \in {tx(w1, "progress")}}) :
                  w1 \in {[w EXCEPT !.a.sinceInput = 0,
                                    !.e = update(w.e, stimIndex, angularDistance.value),
                                    !.a.calls = Logged(@, "update", stimIndex)]}})

\* function handlePhoneMessage(d): nav to start, input, preTestAnswer (the
\* calibration steps of nav are not part of the test)
handlePhoneMessage(w, d) ==
    IF d.type = "nav" /\ d.value = "start" THEN startTest(w)
    ELSE IF d.type = "input" THEN handleInput(w, d.value)
    ELSE IF d.type = "preTestAnswer" THEN beginTestAfterPreTest(w)
    ELSE w

\* the pending statements of a handler: nextTrial(), where mode.render() draws the
\* orientation angle, and the statement after it unless an exception escaped
Continue(w, angle) ==
    IF w.pending = << >> THEN w
    ELSE Only({IF Len(w.pending) = 2 /\ ~w1.a.uncaught THEN tx(w1, "testStart") ELSE w1 :
               w1 \in {nextTrial(w, angle)}})

(***************************************************************************)
(* The host of src/peer-sync.js                                            *)
(***************************************************************************)
\* the number of connections remotes make to the host
MaxConns == 3
Conns == 1..MaxConns

\* createHost(...): let conn = null (0 stands for null, a connection for itself);
\* status[c] is "pending" before the 'open' event of connection c, "open" while
\* c.open is true, "closed" after its 'close' event
HostCreated == [conn |-> 0, status |-> [c \in Conns |-> "pending"]]

\* get connected() { return conn && conn.open; }
connected(h) == h.conn # 0 /\ h.status[h.conn] = "open"

\* c.on('open', () => { conn = c; if (onConnect) onConnect(); })
OnConnOpen(h, c) == [h EXCEPT !.conn = c, !.status[c] = "open"]

\* c.on('close', () => { conn = null; if (onDisconnect) onDisconnect(); })
OnConnClose(h, c) == [h EXCEPT !.conn = 0, !.status[c] = "closed"]

\* send(msg) { if (conn && conn.open) conn.send(msg); }: the connection the
\* message is handed to, 0 when send does nothing
send(h, msg) == IF h.conn # 0 /\ h.status[h.conn] = "open" THEN h.conn ELSE 0

Inst == {1, 2}

VARIABLES
    eng,     \* eng[i]: the i-th QCSFEngine instance, Null before it is constructed
    sel,     \* sel[i]: the stimulus returned by the last selectStimulus of i, Null once answered
    ret,     \* the last call: instance, method, arguments, returned value, and whether
             \* the call before it was the same method of the same instance
    script,  \* the responses a scripted run has still to give, << >> outside scripted runs
    currentAngle, \* the orientation (degrees) the Gabor mode rendered last
    app,     \* the module-level variables of app.js, and what its last handler did
    host     \* the closure of a host of peer-sync.js and the connections made to it

vars == <<eng, sel, ret, script, currentAngle, app, host>>

NoCall == [inst |-> 0, op |-> "none", args |-> << >>, result |-> Null, again |-> FALSE]

Init ==
    /\ eng = [i \in Inst |-> Null]
    /\ sel = [i \in Inst |-> Null]
    /\ ret = NoCall
    /\ script = << >>
    /\ currentAngle = 0
    /\ app = AppLoaded
    /\ host = HostCreated

InitRun ==
    /\ eng = [i \in Inst |-> Null]
    /\ sel = [i \in Inst |-> Null]
    /\ ret = NoCall
    /\ script \in Scripts
    /\ currentAngle = 0
    /\ app = AppLoaded
    /\ host = HostCreated

Construct(i, variant, options) ==
    /\ eng[i] = Null
    /\ eng' = Store(eng, i, NewEngine(variant, options))
    /\ ret' = [inst |-> i, op |-> "new", args |-> <<variant, options>>, result |-> Null,
                again |-> (ret.op = "new" /\ ret.inst = i)]
    /\ UNCHANGED <<sel, script, currentAngle, app, host>>

SelectStimulus(i) ==
    /\ eng[i] # Null
    /\ \E c \in {Call_selectStimulus(eng[i])} :
          /\ eng' = Store(eng, i, c.engine)
          /\ sel' = [sel EXCEPT ![i] = c.result]
          /\ ret' = [inst |-> i, op |-> "selectStimulus", args |-> << >>, result |-> c.result,
                     again |-> (ret.op = "selectStimulus" /\ ret.inst = i)]
    /\ UNCHANGED <<script, currentAngle, app, host>>

\* engine.update(stimIndex, response) on instance i
DoUpdate(i, stimIndex, response) ==
    /\ eng[i] # Null
    /\ \E c \in {Call_update(eng[i], stimIndex, response)} :
          /\ eng' = Store(eng, i, c.engine)
          /\ ret' = [inst |-> i, op |-> "update", args |-> <<stimIndex, response>>,
                     result |-> c.result,
                     again |-> (ret.op = "update" /\ ret.inst = i)]
    /\ sel' = [sel EXCEPT ![i] = Null]
    /\ UNCHANGED <<currentAngle, app, host>>

Update(i, stimIndex, response) ==
    /\ eng[i] # Null
    /\ eng[i].trialCount < MaxTrials
    /\ DoUpdate(i, stimIndex, response)
    /\ UNCHANGED script

GetEstimate(i) ==
    /\ eng[i] # Null
    /\ \E c \in {Call_getEstimate(eng[i])} :
          /\ eng' = Store(eng, i, c.engine)
          /\ ret' = [inst |-> i, op |-> "getEstimate", args |-> << >>, result |-> c.result,
                     again |-> (ret.op = "getEstimate" /\ ret.inst = i)]
    /\ UNCHANGED <<sel, script, currentAngle, app, host>>

GetExpectedEstimate(i) ==
    /\ eng[i] # Null
    /\ \E c \in {Call_getExpectedEstimate(eng[i])} :
          /\ eng' = Store(eng, i, c.engine)
          /\ ret' = [inst |-> i, op |-> "getExpectedEstimate", args |-> << >>,
                     result |-> c.result,
                     again |-> (ret.op = "getExpectedEstimate" /\ ret.inst = i)]
    /\ UNCHANGED <<sel, script, currentAngle, app, host>>

GetCSFCurve(i) ==
    /\ eng[i] # Null
    /\ \E c \in {Call_getCSFCurve(eng[i])} :
          /\ eng' = Store(eng, i, c.engine)
          /\ ret' = [inst |-> i, op |-> "getCSFCurve", args |-> << >>, result |-> c.result,
                     again |-> (ret.op = "getCSFCurve" /\ ret.inst = i)]
    /\ UNCHANGED <<sel, script, currentAngle, app, host>>

\* engine.evaluateCSF(freq), params omitted
EvaluateCSF(i, freq) ==
    /\ eng[i] # Null
    /\ \E c \in {Call_evaluateCSF(eng[i], freq)} :
          /\ eng' = Store(eng, i, c.engine)
          /\ ret' = [inst |-> i, op |-> "evaluateCSF", args |-> <<freq>>, result |-> c.result,
                     again |-> (ret.op = "evaluateCSF" /\ ret.inst = i)]
    /\ UNCHANGED <<sel, script, currentAngle, app, host>>

\* engine.computeAULCSF(), params omitted
ComputeAULCSF(i) ==
    /\ eng[i] # Null
    /\ \E c \in {Call_computeAULCSF(eng[i])} :
          /\ eng' = Store(eng, i, c.engine)
          /\ ret' = [inst |-> i, op |-> "computeAULCSF", args |-> << >>, result |-> c.result,
                     again |-> (ret.op = "computeAULCSF" /\ ret.inst = i)]
    /\ UNCHANGED <<sel, script, currentAngle, app, host>>

\* mode.render(canvas, stim, cal): one of the six orientations is drawn
Render(angle) ==
    /\ currentAngle' = angle
    /\ ret' = [inst |-> 0, op |-> "render", args |-> << >>, result |-> Num(angle),
               again |-> (ret.op = "render")]
    /\ UNCHANGED <<eng, sel, script, app, host>>

\* mode.checkAnswer(response)
CheckAnswer(response) ==
    /\ ret' = [inst |-> 0, op |-> "checkAnswer", args |-> <<response>>,
               result |-> checkAnswer(currentAngle, response),
               again |-> (ret.op = "checkAnswer")]
    /\ UNCHANGED <<eng, sel, script, currentAngle, app, host>>

\* one engine, graded or binary, on the small grid, called freely
Next ==
    \/ \E variant \in {"graded", "binary"} : Construct(1, variant, SmallOptions)
    \/ SelectStimulus(1)
    \/ \E s \in 0..(Len(SmallOptions.stimFreqs) * Len(SmallOptions.stimLogContrasts) - 1) :
         /\ eng[1] # Null
         /\ \E r \in ResponsesOf(eng[1]) : Update(1, s, r)

Spec == Init /\ [][Next]_vars

\* one graded engine on the small grid, updated freely, and its derived metrics
NextDerived ==
    \/ Construct(1, "graded", SmallOptions)
    \/ \E s \in 0..(Len(SmallOptions.stimFreqs) * Len(SmallOptions.stimLogContrasts) - 1) :
         \E r \in GradedResponses : Update(1, s, r)
    \/ GetEstimate(1)
    \/ GetExpectedEstimate(1)
    \/ GetCSFCurve(1)

SpecDerived == Init /\ [][NextDerived]_vars

\* the select-then-update loop of a test run: a stimulus is selected, the next
\* response of the script is applied to it
RunSelect ==
    /\ script # << >>
    /\ sel[1] = Null
    /\ SelectStimulus(1)

RunAnswer ==
    /\ script # << >>
    /\ sel[1] # Null
    /\ DoUpdate(1, sel[1].stimIndex, Head(script))
    /\ script' = Tail(script)

NextRun ==
    \/ Construct(1, "graded", RunOptions)
    \/ RunSelect
    \/ RunAnswer

SpecRun == InitRun /\ [][NextRun]_vars

\* two engines of the same configuration, each answered on the stimulus it selected
PairSelect(i) ==
    /\ sel[i] = Null
    /\ SelectStimulus(i)

PairAnswer(i, response) ==
    /\ sel[i] # Null
    /\ Update(i, sel[i].stimIndex, response)

NextPair ==
    \E i \in Inst :
        \/ Construct(i, "graded", SmallOptions)
        \/ PairSelect(i)
        \/ \E r \in GradedResponses : PairAnswer(i, r)

SpecPair == Init /\ [][NextPair]_vars

\* one engine whose hypothesis grid is empty, called freely
NextDegenerate ==
    \/ \E variant \in {"graded", "binary"} : Construct(1, variant, EmptyGridOptions)
    \/ SelectStimulus(1)
    \/ \E s \in 0..(Len(EmptyGridOptions.stimFreqs) * Len(EmptyGridOptions.stimLogContrasts) - 1) :
         /\ eng[1] # Null
         /\ \E r \in ResponsesOf(eng[1]) : Update(1, s, r)

SpecDegenerate == Init /\ [][NextDegenerate]_vars

\* one engine, graded or binary, answered on the stimuli it selects and asked for
\* every estimate and derived metric at every point of the run
NextMetrics ==
    \/ \E variant \in {"graded", "binary"} : Construct(1, variant, SmallOptions)
    \/ PairSelect(1)
    \/ /\ eng[1] # Null
       /\ \E r \in (IF eng[1].variant = "graded" THEN GradedResponses ELSE BOOLEAN) :
            PairAnswer(1, r)
    \/ GetEstimate(1)
    \/ GetExpectedEstimate(1)
    \/ \E freq \in MetricFreqs : EvaluateCSF(1, freq)
    \/ ComputeAULCSF(1)
    \/ GetCSFCurve(1)

SpecMetrics == Init /\ [][NextMetrics]_vars

\* the constructor alone, on every configuration of GridOptions
NextGrid ==
    \E variant \in {"graded", "binary"}, options \in GridOptions :
        Construct(1, variant, options)

SpecGrid == Init /\ [][NextGrid]_vars

\* one engine, graded or binary, on a configuration of TieOptions, called freely
\* and asked for its mode estimate at every point of the run
NextEstimate ==
    \/ \E variant \in {"graded", "binary"}, options \in TieOptions :
         Construct(1, variant, options)
    \/ SelectStimulus(1)
    \/ \E s \in 0..3 :
         /\ eng[1] # Null
         /\ \E r \in (IF eng[1].variant = "graded" THEN GradedResponses ELSE BOOLEAN) :
              Update(1, s, r)
    \/ GetEstimate(1)

SpecEstimate == Init /\ [][NextEstimate]_vars

\* the Gabor mode alone: stimuli are rendered and answers checked in any order
NextMode ==
    \/ \E k \in 1..Len(ORIENTATIONS_6) : Render(ORIENTATIONS_6[k])
    \/ \E k \in 1..Len(GaborKeys) : CheckAnswer(GaborKeys[k])
    \/ \E response \in UnknownKeys : CheckAnswer(response)

SpecMode == Init /\ [][NextMode]_vars

(***************************************************************************)
(* The handlers of app.js as actions                                       *)
(***************************************************************************)
\* what a handler starts from: nothing sent yet, no exception yet
World ==
    [a |-> [app EXCEPT !.sent = {}, !.uncaught = FALSE, !.shown = "", !.params = Null],
     e |-> eng[1], angle |-> currentAngle, pending |-> << >>]

\* the handler op(args) has run and left w
Handled(op, args, w) ==
    /\ eng' = Store(eng, 1, w.e)
    /\ currentAngle' = w.angle
    /\ app' = w.a
    /\ ret' = [inst |-> 1, op |-> op, args |-> args, result |-> Null, again |-> FALSE]
    /\ UNCHANGED <<sel, script, host>>

\* the orientations mode.render() draws in the runs of the application
AppAngles == {0, 90}

\* the values the subject enters: every key of the mode and an unknown key in the
\* tutorial, "none" and an unknown key once the test has started
AppInputs ==
    IF app.testStarted THEN {"none", "6oclock"}
    ELSE {GaborKeys[k] : k \in 1..Len(GaborKeys)} \cup {"6oclock"}

\* the messages of the phone and their local counterparts: { type: 'input', value }
\* or a key press (after the testComplete check of the keydown listener),
\* { type: 'nav', to: 'start' } or the Start button (window.startTest),
\* { type: 'preTestAnswer' } or, while the questionnaire is shown, its button
\* (window.submitPreTest)
InputMessages == {[type |-> "input", value |-> v] : v \in AppInputs}
StartMessage == [type |-> "nav", value |-> "start"]
PreTestAnswerMessage == [type |-> "preTestAnswer", value |-> ""]

\* the handler the message d runs, under the name the record of calls gives it
HandlerOf(d) ==
    IF d.type = "input" THEN "handleInput"
    ELSE IF d.type = "nav" THEN "startTest"
    ELSE "preTestAnswer"

\* handlePhoneMessage(d), run to its end
Message(d) ==
    /\ d.type = "preTestAnswer" => (app.connected \/ app.inPreTest)
    /\ \E angle \in AppAngles :
          \E w0 \in {World} :
              \E w1 \in {handlePhoneMessage(w0, d)} :
                  \E w \in {Continue(w1, angle)} :
                      Handled(HandlerOf(d),
                              IF d.type = "input" THEN <<d.value>> ELSE << >>, w)

\* DEBOUNCE_MS pass without an accepted input
Tick ==
    /\ app.sinceInput < DEBOUNCE_MS
    /\ \E w0 \in {World} : Handled("tick", << >>, [w0 EXCEPT !.a.sinceInput = DEBOUNCE_MS])

\* the phone's connection opens: host.connected = true, onPhoneConnect()
PhoneConnect ==
    /\ ~app.connected
    /\ \E w0 \in {World} : Handled("connect", << >>, [w0 EXCEPT !.a.connected = TRUE])

\* the phone's connection closes: host.connected = false, onPhoneDisconnect()
PhoneDisconnect ==
    /\ app.connected
    /\ \E w0 \in {World} : Handled("disconnect", << >>, [w0 EXCEPT !.a.connected = FALSE])

\* the application, driven by key presses, buttons and phone messages, in any
\* order but for two: the test is not restarted while the questionnaire is shown,
\* and the questionnaire is not answered during the tutorial
NextApp ==
    \/ \E d \in InputMessages
                 \cup (IF app.inPreTest THEN {} ELSE {StartMessage})
                 \cup (IF app.inTutorial THEN {} ELSE {PreTestAnswerMessage}) : Message(d)
    \/ Tick
    \/ PhoneConnect
    \/ PhoneDisconnect

SpecApp == Init /\ [][NextApp]_vars

\* the application with no restriction on the order of the events
NextAppAnyOrder ==
    \/ \E d \in InputMessages \cup {StartMessage, PreTestAnswerMessage} : Message(d)
    \/ Tick
    \/ PhoneConnect
    \/ PhoneDisconnect

SpecAppAnyOrder == Init /\ [][NextAppAnyOrder]_vars

(***************************************************************************)
(* The host of peer-sync.js as actions                                     *)
(***************************************************************************)
\* the 'open' event of connection c
ConnOpen(c) ==
    /\ host.status[c] = "pending"
    /\ host' = OnConnOpen(host, c)
    /\ ret' = [inst |-> 0, op |-> "open", args |-> <<c>>, result |-> Null, again |-> FALSE]
    /\ UNCHANGED <<eng, sel, script, currentAngle, app>>

\* the 'close' event of connection c
ConnClose(c) ==
    /\ host.status[c] = "open"
    /\ host' = OnConnClose(host, c)
    /\ ret' = [inst |-> 0, op |-> "close", args |-> <<c>>, result |-> Null, again |-> FALSE]
    /\ UNCHANGED <<eng, sel, script, currentAngle, app>>

\* host.send(msg), as tx calls it after reading host.connected
HostSend(msg) ==
    /\ ret' = [inst |-> 0, op |-> "send", args |-> <<msg>>,
               result |-> [connected |-> connected(host), to |-> send(host, msg)],
               again |-> FALSE]
    /\ UNCHANGED <<eng, sel, script, currentAngle, app, host>>

\* connections from several remotes open and close in any order, and the host
\* sends at any time
NextHost ==
    \/ \E c \in Conns : ConnOpen(c)
    \/ \E c \in Conns : ConnClose(c)
    \/ \E msg \in {"progress", "results"} : HostSend(msg)

SpecHost == Init /\ [][NextHost]_vars

AppTypeOK == app.tutStep \in 0..6 /\ app.finishes \in 0..2

(***************************************************************************)
(* Properties                                                              *)
(***************************************************************************)
\* the sum of the posterior vector
PosteriorSum(e) == SumSeq(e.prior)

\* the responses and the stimulus indices recorded in the history of a graded engine
Responses(e) == [k \in 1..Len(e.history) |-> e.history[k].angularDistance]
StimIndices(e) == [k \in 1..Len(e.history) |-> e.history[k].stimIndex]

\* the base expected entropy of every stimulus of the grid
BaseEntropies(e) == [s \in 1..e.nStim |-> BaseEntropy(e, s - 1)] @@ << >>

C2_UnmodelledResponseRejected ==
    [][(/\ ret'.op = "update"
        /\ eng[ret'.inst].variant = "graded"
        /\ ret'.args[2] \notin {-1, 0, 1, 2, 3})
       => (/\ ret'.result = Threw
           /\ eng'[ret'.inst] = eng[ret'.inst])]_vars

\* C3: an update whose pre-normalisation total is <= 0 surfaces a fatal condition:
\* it does not complete as an ordinary trial, with nothing thrown, trialCount
\* incremented and a history record appended.
C3_ZeroTotalIsFatal ==
    [][(/\ ret'.op = "update"
        /\ SumSeq(Products(eng[ret'.inst], ret'.args[1], ret'.args[2])) <= 0)
       => ~(/\ ret'.result = Null
            /\ eng'[ret'.inst].trialCount = eng[ret'.inst].trialCount + 1
            /\ Len(eng'[ret'.inst].history) = Len(eng[ret'.inst].history) + 1)]_vars

\* C4: every update(stimIndex, response) increments trialCount by exactly 1, appends
\* exactly one record (trial number, stimIndex, response) to history, and adds
\* exactly 1 to the counter of the frequency of stimGrid[stimIndex], leaving the
\* counters of all the other frequencies as they were.
C4_UpdateFrame ==
    [][ret'.op = "update" =>
        LET i == ret'.inst
            s == ret'.args[1]
            r == ret'.args[2]
            f == eng[i].stimGrid[s + 1].freq
            n == Len(eng[i].history)
        IN /\ eng'[i].trialCount = eng[i].trialCount + 1
           /\ Len(eng'[i].history) = n + 1
           /\ SubSeq(eng'[i].history, 1, n) = eng[i].history
           /\ eng'[i].history[n + 1].trial = eng[i].trialCount + 1
           /\ eng'[i].history[n + 1].stimIndex = s
           /\ IF eng[i].variant = "graded"
              THEN eng'[i].history[n + 1].angularDistance = r
              ELSE eng'[i].history[n + 1].correct = r
           /\ MapGet(eng'[i].freqTrialCounts, f) = MapGet(eng[i].freqTrialCounts, f) + 1
           /\ DOMAIN eng'[i].freqTrialCounts = (DOMAIN eng[i].freqTrialCounts) \cup {f}
           /\ \A g \in DOMAIN eng[i].freqTrialCounts :
                g # f => eng'[i].freqTrialCounts[g] = eng[i].freqTrialCounts[g]]_vars

\* C4 witness: after two updates at stimuli of different frequencies, each of the
\* two frequencies has been counted once
C4_Witness ==
    /\ eng[1] # Null
    /\ ret.op = "update"
    /\ eng[1].trialCount = 2
    /\ Len(eng[1].history) = 2
    /\ MapGet(eng[1].freqTrialCounts, 2 * PUnit) = 1
    /\ MapGet(eng[1].freqTrialCounts, 16 * PUnit) = 1

\* C5: the stimulus returned by selectStimulus has the minimum score of the whole
\* grid, every stimulus of a lower index has a strictly higher score, and the
\* returned frequency and logContrast are those of stimGrid at the returned index.
C5_FirstGlobalMinimum ==
    \A i \in Inst :
        sel[i] # Null =>
            LET e  == eng[i]
                ee == Scores(e)
                b  == sel[i].stimIndex
            IN /\ b \in 0..(e.nStim - 1)
               /\ \A s \in 0..(e.nStim - 1) :
                    /\ ee[b + 1] <= ee[s + 1]
                    /\ s < b => ee[s + 1] > ee[b + 1]
               /\ sel[i].frequency = e.stimGrid[b + 1].freq
               /\ sel[i].logContrast = e.stimGrid[b + 1].logContrast

\* C5 witness: a selection in which a stimulus of a higher index shares the minimum
\* score with the returned one
C5_Witness ==
    /\ sel[1] # Null
    /\ eng[1].trialCount > 0
    /\ LET ee == Scores(eng[1])
           b  == sel[1].stimIndex
       IN \E s \in (b + 1)..(eng[1].nStim - 1) : ee[s + 1] = ee[b + 1]

C7_CoverageGuarantee ==
    (eng[1] # Null /\ eng[1].trialCount = RunLength /\ script = << >>) =>
        \A b \in 1..Len(FREQ_BANDS) : getBandCounts(eng[1])[b] >= FREQ_BANDS[b].minTrials

\* C8 as claimed: the contrast returned by selectStimulus is 10^logContrast and lies
\* strictly between 0 and 1.
C8_ContrastStrictlyBelowOne ==
    \A i \in Inst :
        sel[i] # Null =>
            /\ sel[i].contrast = Pow10(eng[i].stimGrid[sel[i].stimIndex + 1].logContrast)
            /\ 0 < sel[i].contrast
            /\ sel[i].contrast < PUnit

\* C8 as amended: the contrast returned by selectStimulus is 10^logContrast of the
\* selected grid entry, greater than 0 and at most 1; it is 1 when logContrast is 0.
C8_ContrastInRange ==
    \A i \in Inst :
        sel[i] # Null =>
            /\ sel[i].contrast = Pow10(eng[i].stimGrid[sel[i].stimIndex + 1].logContrast)
            /\ 0 < sel[i].contrast
            /\ sel[i].contrast <= PUnit
            /\ sel[i].logContrast = 0 => sel[i].contrast = PUnit

\* C8 witness: a run has selected a stimulus of logContrast 0, of contrast 1
C8_Witness ==
    /\ sel[1] # Null
    /\ sel[1].logContrast = 0
    /\ sel[1].contrast = PUnit

\* C9: at every step of a run the base expected entropy of the selected stimulus is
\* at most the mean of the base expected entropies of all the stimuli.
C9_ChosenEntropyAtMostMean ==
    sel[1] # Null =>
        LET be == BaseEntropies(eng[1])
        IN eng[1].nStim * be[sel[1].stimIndex + 1] <= SumSeq(be)

C11_GridsAndCacheImmutable ==
    [][\A i \in Inst :
          eng[i] # Null =>
              /\ eng'[i].paramGrid = eng[i].paramGrid
              /\ eng'[i].stimGrid = eng[i].stimGrid
              /\ eng'[i].matrix = eng[i].matrix
              /\ eng'[i].matrix = NewEngine(eng[i].variant, SmallOptions).matrix]_vars

\* C11 witness: computeAULCSF has returned on an engine that was updated twice and
\* still holds the cache of its construction
C11_Witness ==
    /\ ret.op = "computeAULCSF"
    /\ eng[1].trialCount = 2
    /\ eng[1].nParams > 0
    /\ eng[1].matrix = NewEngine(eng[1].variant, SmallOptions).matrix

\* the Cartesian product of the four candidate lists of options o in the iteration
\* order of the constructor's loops (gain outermost, truncation innermost)
ProductOf(o) ==
    LET G == o.peakGainValues
        F == o.peakFreqValues
        B == o.bandwidthValues
        D == o.truncationValues
        tuple(k) == [g |-> G[(k \div (Len(F) * Len(B) * Len(D))) + 1],
                     f |-> F[((k \div (Len(B) * Len(D))) % Len(F)) + 1],
                     b |-> B[((k \div Len(D)) % Len(B)) + 1],
                     d |-> D[(k % Len(D)) + 1]]
    IN [k \in 1..(Len(G) * Len(F) * Len(B) * Len(D)) |-> tuple(k - 1)]

\* the predicted log-sensitivity of tuple t at 60 cpd is <= 0
AtMostThresholdAt60(t) == logParabolaCSF(MAX_HUMAN_CUTOFF_CPD, t.g, t.f, t.b, t.d) <= 0

\* C12: the hypothesis grid of a constructed engine is the Cartesian product of the
\* four candidate lists, in product iteration order, restricted to exactly the tuples
\* whose predicted log-sensitivity at 60 cpd is <= 0.
C12_GridIsFilteredProduct ==
    \A i \in Inst :
        (eng[i] # Null /\ ret.op = "new" /\ ret.inst = i) =>
            /\ eng[i].paramGrid = SelectSeq(ProductOf(ret.args[2]), AtMostThresholdAt60)
            /\ eng[i].nParams = Len(eng[i].paramGrid)

\* C12 witness: an engine built from lists of several values, with some tuples kept
\* and some excluded
C12_Witness ==
    /\ ret.op = "new"
    /\ Len(ret.args[2].peakGainValues) = 3
    /\ Len(ret.args[2].peakFreqValues) = 3
    /\ eng[1].nParams >= 2
    /\ eng[1].nParams < Len(ProductOf(ret.args[2]))
\* the raw detection probability psi of hypothesis h at stimulus s (1-based) of
\* engine e, before any clamp
RawPsi(e, h, s) ==
    LET p    == e.paramGrid[h]
        stim == e.stimGrid[s]
    IN Logistic(e.slopeParam,
                logParabolaCSF(stim.freq, p.g, p.f, p.b, p.d) - (-stim.logContrast))

\* C13: every entry of the likelihood cache is built from psi clamped to
\* [0.001, 0.999], the clamp applied to psi itself before any guess-rate or lapse
\* adjustment: the graded cache holds the clamped psi, the binary cache holds
\* gamma + (1 - gamma - lapse) * (clamped psi).
C13_ClampAppliedToPsi ==
    \A i \in Inst :
        eng[i] # Null =>
            \A h \in 1..eng[i].nParams : \A s \in 1..eng[i].nStim :
                LET psi == Clamp(RawPsi(eng[i], h, s))
                IN eng[i].matrix[h][s] =
                     IF eng[i].variant = "graded" THEN psi
                     ELSE eng[i].gamma + PMul(PUnit - eng[i].gamma - eng[i].lapse, psi)
\* the graded response model as stated: P(distance = d | psi) and P(none | psi)
GradedDistanceProbability(psi, d) ==
    PMul(PMul(psi, PUnit - GRADED_LAPSE), GRADED_KERNEL[d + 1])
        + PMul(PUnit - psi, RDiv(GRADED_GUESS_RATE, 6))
GradedNoneProbability(psi) ==
    PMul(psi, GRADED_LAPSE) + PMul(PUnit - psi, PUnit - GRADED_GUESS_RATE)

\* the posterior after multiplying prior[h] by used[h] for every h and renormalising
Renormalised(prior, used) ==
    LET w     == [h \in 1..Len(prior) |-> prior[h] * used[h]]
        total == SumSeq(w)
    IN [h \in 1..Len(prior) |-> DivDigits(w[h], total, 4)]

\* C14: in graded mode, for every hypothesis and stimulus, update and selectStimulus
\* both use psi*(1-lambda)*K[d] + (1-psi)*(g/6) for distance d in 0..3 and
\* psi*lambda + (1-psi)*(1-g) for "none"; the posterior after an update with a
\* modelled response is the prior multiplied by the robust mix of that probability.
C14_GradedResponseModel ==
    [][\A i \in Inst :
          (eng[i] # Null /\ eng[i].variant = "graded") =>
              /\ \A h \in 1..eng[i].nParams : \A s \in 1..eng[i].nStim :
                    LET psi == eng[i].matrix[h][s]
                    IN /\ \A d \in 0..3 :
                            /\ pObsRawGraded(psi, d) = GradedDistanceProbability(psi, d)
                            /\ pOutcomeGraded(psi, d) = GradedDistanceProbability(psi, d)
                       /\ pObsRawGraded(psi, -1) = GradedNoneProbability(psi)
                       /\ pOutcomeGraded(psi, 4) = GradedNoneProbability(psi)
              /\ (ret'.op = "update" /\ ret'.inst = i /\ ret'.args[2] \in {-1, 0, 1, 2, 3}) =>
                    LET e   == eng[i]
                        s   == ret'.args[1] + 1
                        r   == ret'.args[2]
                        mix == e.robustLikelihoodMix
                        raw(h) == IF r = -1 THEN GradedNoneProbability(e.matrix[h][s])
                                  ELSE GradedDistanceProbability(e.matrix[h][s], r)
                        used == [h \in 1..e.nParams |->
                                    PMul(PUnit - mix, raw(h)) + PMul(mix, PUnit \div 7)]
                    IN eng'[i].prior = Renormalised(e.prior, used)]_vars

\* C14 witness: a graded engine updated with "none" and then with distance 0
C14_Witness ==
    /\ eng[1] # Null
    /\ eng[1].variant = "graded"
    /\ ret.op = "update"
    /\ Len(eng[1].history) = 2
    /\ eng[1].history[1].angularDistance = -1
    /\ eng[1].history[2].angularDistance = 0
    /\ eng[1].prior # NewEngine("graded", SmallOptions).prior

\* the number of outcome classes of the response model of engine e
OutcomeClasses(e) == IF e.variant = "graded" THEN 5 ELSE 2

\* C15: the probability multiplied into the posterior by update is
\* (1 - mix) * pObsRaw + mix * pUniform with pUniform = 1 / (number of outcome
\* classes): 1/2 in binary mode, 1/5 in graded mode.
C15_UniformOverOutcomeClasses ==
    [][(/\ ret'.op = "update"
        /\ (eng[ret'.inst].variant = "binary" \/ ret'.args[2] \in {-1, 0, 1, 2, 3}))
       => LET e   == eng[ret'.inst]
              s   == ret'.args[1]
              r   == ret'.args[2]
              mix == e.robustLikelihoodMix
              pUniform == PUnit \div OutcomeClasses(e)
              raw(h) == IF e.variant = "graded" THEN pObsRawGraded(e.matrix[h][s + 1], r)
                        ELSE pObsRawBinary(e.matrix[h][s + 1], r)
              used == [h \in 1..e.nParams |-> PMul(PUnit - mix, raw(h)) + PMul(mix, pUniform)]
          IN eng'[ret'.inst].prior = Renormalised(e.prior, used)]_vars
\* the chance rate and P(correct | h, s) of the binary engine as stated: psi is the
\* psychometric function clamped to [0.001, 0.999]
ClaimedGamma(e) ==
    IF e.numAFC > 1 THEN PUnit \div e.numAFC ELSE DEFAULTS_BINARY.falseAlarmRate
ClaimedPCorrect(e, h, s) ==
    ClaimedGamma(e) + PMul(PUnit - ClaimedGamma(e) - e.lapse, Clamp(RawPsi(e, h, s)))

\* C16: in the binary engine P(correct|h,s) = gamma + (1-gamma-lambda)*psi(h,s) with
\* gamma = 1/numAFC when numAFC > 1 and the false-alarm rate otherwise; update(s, TRUE)
\* multiplies hypothesis h by the mixed P(correct|h,s), update(s, FALSE) by the mixed
\* 1 - P(correct|h,s).
C16_BinaryResponseModel ==
    [][\A i \in Inst :
          (eng[i] # Null /\ eng[i].variant = "binary") =>
              /\ eng[i].gamma = ClaimedGamma(eng[i])
              /\ \A h \in 1..eng[i].nParams : \A s \in 1..eng[i].nStim :
                    eng[i].matrix[h][s] = ClaimedPCorrect(eng[i], h, s)
              /\ (ret'.op = "update" /\ ret'.inst = i) =>
                    LET e    == eng[i]
                        s    == ret'.args[1] + 1
                        mix  == e.robustLikelihoodMix
                        raw(h) == IF ret'.args[2] THEN ClaimedPCorrect(e, h, s)
                                  ELSE PUnit - ClaimedPCorrect(e, h, s)
                        used == [h \in 1..e.nParams |->
                                    PMul(PUnit - mix, raw(h)) + PMul(mix, PUnit \div 2)]
                    IN eng'[i].prior = Renormalised(e.prior, used)]_vars
\* the hypothesis of grid index h (from 1) as getEstimate returns it
EstimateOf(e, h) ==
    [peakGain |-> e.paramGrid[h].g, peakFreq |-> e.paramGrid[h].f,
     bandwidth |-> e.paramGrid[h].b, truncation |-> e.paramGrid[h].d]

\* the grid indices (from 1) whose posterior mass is the maximum
MaxMassIndices(e) ==
    {b \in 1..e.nParams : \A h \in 1..e.nParams : e.prior[h] <= e.prior[b]}

\* C18: getEstimate returns the parameters of a hypothesis whose posterior mass is
\* at least the mass of every other hypothesis, and of the lowest grid index among
\* the hypotheses that share the maximum mass.
C18_ModeEstimateFirstMaximum ==
    (ret.op = "getEstimate" /\ eng[ret.inst].nParams > 0) =>
        LET e == eng[ret.inst]
        IN \E b \in MaxMassIndices(e) :
              /\ ret.result = EstimateOf(e, b)
              /\ \A h \in MaxMassIndices(e) : b <= h

\* C18 witness: after an update two hypotheses share the maximum mass, the
\* hypothesis of index 0 has less, and getEstimate returned the first of the two
C18_Witness ==
    /\ ret.op = "getEstimate"
    /\ eng[1] # Null
    /\ eng[1].trialCount >= 1
    /\ Cardinality(MaxMassIndices(eng[1])) = 2
    /\ 1 \notin MaxMassIndices(eng[1])
    /\ \E h \in MaxMassIndices(eng[1]) : ret.result # EstimateOf(eng[1], h)
\* the result of the last derived-metric call when it is computed for engine e0
\* with the expected-value estimate of e0 in place of the omitted params
MetricFrom(e0) ==
    LET p == getExpectedEstimate(e0)
    IN CASE ret.op = "evaluateCSF"   -> evaluateCSF(e0, ret.args[1], p)
         [] ret.op = "computeAULCSF" -> computeAULCSF(e0, p)
         [] ret.op = "getCSFCurve"   -> getCSFCurve(e0, p)

\* C17: evaluateCSF, computeAULCSF and getCSFCurve called without params, at any
\* point of a run, return (they do not throw) the value computed from the
\* expected-value estimate of the initial prior.
C17_NullParamsUseInitialPrior ==
    (ret.op \in {"evaluateCSF", "computeAULCSF", "getCSFCurve"}) =>
        ret.result = MetricFrom(NewEngine(eng[ret.inst].variant, SmallOptions))
\* the number of orientation answers at distance d from the presented orientation
AnswersAtDistance(angle, d) ==
    Cardinality({k \in DOMAIN AnswerMap : checkAnswer(angle, k) = Num(d)})

\* C19: for every presented orientation and every response key of the Gabor mode
\* checkAnswer returns an integer in {-1, 0, 1, 2, 3}: -1 exactly for "none" or an
\* unknown key, 0 exactly when the answered orientation is the presented one; over
\* the six orientation answers the distances 0, 1, 2, 3 occur 1, 2, 2, 1 times.
C19_CheckAnswerDistances ==
    (ret.op = "checkAnswer") =>
        LET key == ret.args[1]
            r   == ret.result
        IN /\ ~r.nan
           /\ r.value \in {-1, 0, 1, 2, 3}
           /\ (r.value = -1) <=> (key \notin DOMAIN AnswerMap)
           /\ (r.value = 0) <=> (key \in DOMAIN AnswerMap /\ AnswerMap[key] = currentAngle)
           /\ \A d \in 0..3 : AnswersAtDistance(currentAngle, d) = <<1, 2, 2, 1>>[d + 1]
\* C20: the history is append-only and consistent with the counters: a new engine
\* has no record, every update appends one record and no other call touches the
\* history, so that after n updates history has n records; the k-th record has
\* trial = k and stays as it was written, trialCount = n, and the per-frequency
\* counters sum to n.
C20_HistoryAppendOnly ==
    [][\A i \in Inst : eng'[i] # Null =>
          LET e == eng'[i]
              n == Len(e.history)
          IN /\ e.trialCount = n
             /\ \A k \in 1..n : e.history[k].trial = k
             /\ SumCounts(e.freqTrialCounts, DOMAIN e.freqTrialCounts) = n
             /\ IF eng[i] = Null THEN n = 0
                ELSE /\ n = Len(eng[i].history)
                          + (IF ret'.op = "update" /\ ret'.inst = i THEN 1 ELSE 0)
                     /\ SubSeq(e.history, 1, Len(eng[i].history)) = eng[i].history]_vars

\* C20 witness: the end of a scripted run of RunLength updates, spread over at
\* least three frequencies
C20_Witness ==
    /\ eng[1] # Null
    /\ ret.op = "update"
    /\ Len(eng[1].history) = RunLength
    /\ eng[1].history[RunLength].trial = RunLength
    /\ Cardinality(DOMAIN eng[1].freqTrialCounts) >= 3
\* frequencies outside every band: below the first, at the upper edge of the last,
\* and above it
OutOfBandFreqs == {PUnit \div 4, 30 * PUnit, 36 * PUnit}

\* the frequencies of the stimulus grid of e
GridFreqs(e) == {e.stimGrid[s].freq : s \in 1..e.nStim}

\* the bands [min, max) of the table that hold freq
BandsOf(freq) ==
    {i \in 1..Len(FREQ_BANDS) : FREQ_BANDS[i].min <= freq /\ freq < FREQ_BANDS[i].max}

\* the earlier updates of e whose stimulus had a frequency in F
TrialsAt(e, F) ==
    Cardinality({k \in 1..Len(e.history) : e.stimGrid[e.history[k].stimIndex + 1].freq \in F})

\* C21: the coverage boost of a frequency is 3 exactly when it lies in a band
\* [min, max) of the table whose cumulative trial count is below the band's
\* minTrials, and 1 otherwise, also for a frequency in no band; a frequency lies
\* in at most one band.
C21_CoverageBoost ==
    \A i \in Inst : eng[i] # Null =>
        \A f \in GridFreqs(eng[i]) \cup OutOfBandFreqs :
            /\ Cardinality(BandsOf(f)) <= 1
            /\ CoverageBoost(f, getBandCounts(eng[i])) =
                 IF \E b \in BandsOf(f) :
                        TrialsAt(eng[i], {g \in GridFreqs(eng[i]) : b \in BandsOf(g)})
                            < FREQ_BANDS[b].minTrials
                 THEN 3 ELSE 1

\* C21 witness: a run in which one band has met its quota and another has not
C21_Witness ==
    /\ eng[1] # Null
    /\ ret.op = "selectStimulus"
    /\ \E f, g \in GridFreqs(eng[1]) :
          /\ CoverageBoost(f, getBandCounts(eng[1])) = 1
          /\ CoverageBoost(g, getBandCounts(eng[1])) = 3

\* C22: the diversity penalty of a frequency is 1 + 1.5 * (number of earlier updates
\* whose stimulus had exactly that frequency): 1 for a frequency never used, and
\* independent of the trials at other frequencies.  Stated for twice the penalty.
C22_DiversityPenalty ==
    \A i \in Inst : eng[i] # Null =>
        \A f \in GridFreqs(eng[i]) \cup OutOfBandFreqs :
            DiversityPenalty2(eng[i], f) = 2 + 3 * TrialsAt(eng[i], {f})

\* C22 witness: a frequency used twice or more next to one never used
C22_Witness ==
    /\ eng[1] # Null
    /\ ret.op = "selectStimulus"
    /\ \E f, g \in GridFreqs(eng[1]) :
          /\ TrialsAt(eng[1], {f}) >= 2
          /\ DiversityPenalty2(eng[1], f) >= 8
          /\ DiversityPenalty2(eng[1], g) = 2
\* the methods that read the engine
ReadOnlyMethods ==
    {"selectStimulus", "getEstimate", "getExpectedEstimate", "evaluateCSF",
     "computeAULCSF", "getCSFCurve"}

\* C25: selectStimulus, getEstimate, getExpectedEstimate, evaluateCSF, computeAULCSF
\* and getCSFCurve leave the posterior, trialCount, history and the per-frequency
\* counters as they were; update changes them.
C25_OnlyUpdateMutates ==
    [][\A i \in Inst : (eng[i] # Null /\ ret'.inst = i) =>
          /\ (ret'.op \in ReadOnlyMethods) =>
                /\ eng'[i].prior = eng[i].prior
                /\ eng'[i].trialCount = eng[i].trialCount
                /\ eng'[i].history = eng[i].history
                /\ eng'[i].freqTrialCounts = eng[i].freqTrialCounts
          /\ (ret'.op = "update") =>
                /\ eng'[i].trialCount # eng[i].trialCount
                /\ eng'[i].history # eng[i].history
                /\ eng'[i].freqTrialCounts # eng[i].freqTrialCounts]_vars

\* C25 witness: after an update that moved the posterior, a stimulus has been
\* selected and the counters still show one trial
C25_Witness ==
    /\ eng[1] # Null
    /\ ret.op = "selectStimulus"
    /\ eng[1].trialCount = 1
    /\ Len(eng[1].history) = 1
    /\ eng[1].prior # NewEngine(eng[1].variant, SmallOptions).prior
    /\ SumCounts(eng[1].freqTrialCounts, DOMAIN eng[1].freqTrialCounts) = 1
\* C26: every update multiplies each hypothesis by a strictly positive observation
\* probability, at least mix * pUniform; starting from a normalized posterior the
\* products are positive exactly for the hypotheses of positive mass, the
\* pre-normalization total is > 0 and the posterior is renormalized.  The products
\* are exact integers; the rounding of the quotient is not part of the statement.
C26_SupportPreserved ==
    [][(/\ ret'.op = "update"
        /\ SumSeq(eng[ret'.inst].prior) > 0)
       => LET e == eng[ret'.inst]
              s == ret'.args[1]
              r == ret'.args[2]
              w == Products(e, s, r)
              floor == PMul(e.robustLikelihoodMix,
                            IF e.variant = "graded" THEN PUnit \div 7 ELSE PUnit \div 2)
          IN /\ \A h \in 1..e.nParams :
                   /\ pObs(e, h, s, r) > 0
                   /\ pObs(e, h, s, r) >= floor
                   /\ (w[h] > 0) <=> (e.prior[h] > 0)
             /\ SumSeq(w) > 0
             /\ eng'[ret'.inst].prior =
                   [h \in 1..e.nParams |-> DivDigits(w[h], SumSeq(w), 4)]]_vars

\* C26 witness: after two updates a hypothesis has lost most of its mass and every
\* hypothesis still has some
C26_Witness ==
    /\ eng[1] # Null
    /\ ret.op = "update"
    /\ eng[1].trialCount = 2
    /\ \A h \in 1..eng[1].nParams : eng[1].prior[h] > 0
    /\ \E h \in 1..eng[1].nParams : eng[1].prior[h] < PUnit \div 50
\* const mults = [1, 2, 2, 1, 1]: the number of responses in each outcome class
OutcomeMults == <<1, 2, 2, 1, 1>>

\* the multiplicity-weighted sum of p[o] over the outcomes o = 0..4
WeightedOutcomeSum(p) == SumSeq([i \in 1..5 |-> OutcomeMults[i] * p[i - 1]])

\* |x - 1| is within n resolution steps (each probability is rounded to 4 decimals)
NearOne(x, n) == x >= PUnit - n /\ x <= PUnit + n

\* psi from 0 to 1 in steps of 0.01
PsiProbes == {100 * k : k \in 0..100}

\* C27: for every psi in [0,1] the graded outcome probabilities, weighted by the
\* multiplicities 1, 2, 2, 1, 1, sum to 1, in selectStimulus and in update; the
\* outcome weights of selectStimulus sum to 1 under a normalized posterior, and so
\* do the robust-mixed probabilities of update (uniform term 1/7).
C27_OutcomesFormDistribution ==
    /\ \A psi \in PsiProbes :
          /\ NearOne(WeightedOutcomeSum([o \in 0..4 |-> pOutcomeGraded(psi, o)]), 5)
          /\ NearOne(WeightedOutcomeSum([o \in 0..4 |-> pObsRawGraded(psi, OutcomeResponse(o))]), 5)
    /\ \A i \in Inst : (eng[i] # Null /\ eng[i].variant = "graded") =>
          LET e == eng[i]
          IN /\ \A h \in 1..e.nParams : \A s \in 1..e.nStim :
                   /\ NearOne(WeightedOutcomeSum(
                          [o \in 0..4 |-> pOutcomeGraded(e.matrix[h][s], o)]), 5)
                   /\ NearOne(WeightedOutcomeSum(
                          [o \in 0..4 |-> pObs(e, h, s - 1, OutcomeResponse(o))]), 5)
             /\ (e.nParams > 0 /\ e.trialCount > 0) =>
                   \A s \in 1..e.nStim :
                       NearOne(RDiv(SumSeq([h \in 1..e.nParams |->
                                   e.prior[h] * WeightedOutcomeSum(
                                       [o \in 0..4 |-> pOutcomeGraded(e.matrix[h][s], o)])]),
                                    PUnit),
                               5 + e.nParams)

\* C27 witness: a graded engine with a renormalized posterior whose cache holds
\* a psi below one half and a psi above it
C27_Witness ==
    /\ eng[1] # Null
    /\ eng[1].variant = "graded"
    /\ eng[1].trialCount = 2
    /\ ret.op = "selectStimulus"
    /\ \E h \in 1..eng[1].nParams : \E s, t \in 1..eng[1].nStim :
          /\ eng[1].matrix[h][s] < PUnit \div 2
          /\ eng[1].matrix[h][t] > PUnit \div 2
          /\ NearOne(WeightedOutcomeSum(
                 [o \in 0..4 |-> pObs(eng[1], h, s - 1, OutcomeResponse(o))]), 5)

\* every update in the record of the engine calls follows a selectStimulus and is
\* applied to the stimIndex it returned
UpdatesAnswerLastSelect ==
    /\ Len(app.calls) = 1 => app.calls[1].op = "selectStimulus"
    /\ Len(app.calls) = 2 /\ app.calls[2].op = "update"
          => /\ app.calls[1].op = "selectStimulus"
             /\ app.calls[1].stimIndex = app.calls[2].stimIndex

\* C23: in the test loop of the application every engine.update is applied to the
\* stimIndex returned by the most recent selectStimulus, and selects and updates
\* alternate strictly (select, update, select, ...), whatever the order of key
\* presses and phone messages
C23_SelectUpdateAlternate ==
    /\ UpdatesAnswerLastSelect
    /\ Len(app.calls) = 2 => app.calls[1].op # app.calls[2].op

\* the conditions under which handleInput(value) reaches engine.update
InputAccepted(value) ==
    /\ ~app.testComplete
    /\ ~app.inTutorial
    /\ ~app.inPreTest
    /\ app.testStarted
    /\ app.currentStim # Null
    /\ value \in {GaborKeys[k] : k \in 1..Len(GaborKeys)}
    /\ app.sinceInput >= DEBOUNCE_MS

\* C28: handleInput calls engine.update only when the test is not complete, the
\* tutorial and the questionnaire are over, the test has started with a current
\* stimulus, the value is a key of the mode and DEBOUNCE_MS have passed since the
\* last accepted input; then one update is applied to the current stimulus, and in
\* every other case the engine and the current stimulus are unchanged
C28_UpdateOnlyWhenAccepted ==
    [][ret'.op = "handleInput" =>
          IF InputAccepted(ret'.args[1])
          THEN /\ eng[1] # Null
               /\ eng'[1].trialCount = eng[1].trialCount + 1
               /\ eng'[1].history[Len(eng'[1].history)].stimIndex = app.currentStim.stimIndex
               /\ app'.sinceInput = 0
          ELSE /\ eng' = eng
               /\ app'.currentStim = app.currentStim
               /\ app'.sinceInput = app.sinceInput]_vars

C28_Witness ==
    /\ ret.op = "handleInput"
    /\ ret.args = <<"none">>
    /\ app.sinceInput = 0
    /\ app.testStarted /\ ~app.testComplete
    /\ app.currentStim # Null
    /\ Len(app.calls) = 2
    /\ app.calls[1].op = "update"
    /\ app.calls[2] = [op |-> "selectStimulus", stimIndex |-> app.currentStim.stimIndex]
    /\ eng[1].trialCount = 2
    /\ "progress" \in app.sent

\* C24: in a session of the application (from startTest on) the trial loop runs
\* until the engine's trialCount reaches MAX_TRIALS, finish() then runs, once;
\* trialCount never exceeds MAX_TRIALS, and while testComplete is set no input
\* and no phone message causes another engine.update
C24_LoopEndsAtMaxTrials ==
    /\ [](eng[1] # Null =>
             /\ eng[1].trialCount <= MAX_TRIALS
             /\ app.finishes <= 1
             /\ (app.testComplete <=> (app.finishes = 1))
             /\ (app.testComplete <=> (eng[1].trialCount = MAX_TRIALS)))
    /\ [][((eng[1] # Null /\ eng'[1].trialCount = MAX_TRIALS
                /\ eng[1].trialCount # MAX_TRIALS)
               => (app'.testComplete /\ app'.finishes = 1 /\ app'.shown # ""))
          /\ ((app.testComplete /\ ret'.op # "startTest") => eng' = eng)]_vars

C24_Witness ==
    /\ eng[1] # Null
    /\ eng[1].trialCount = MAX_TRIALS
    /\ app.testComplete
    /\ app.finishes = 1
    /\ ret.op = "handleInput"
    /\ ret.args = <<"none">>
    /\ app.sinceInput = DEBOUNCE_MS

\* finish() ran in the last handler and reached its end: no exception escaped, and
\* a connected phone was sent the 'results' message
FinishCompleted ==
    /\ app.shown # ""
    /\ ~app.uncaught
    /\ app.connected => "results" \in app.sent

\* finish() ran in the last handler with a result of computeResult
FinishedWithResult == app.shown \notin {"", "ERROR"} => FinishCompleted

\* C29: finish() always completes: when computeResult throws (the engine failed or
\* is absent) the fallback result with rank 'ERROR' and params null is displayed,
\* the 'results' message is still sent to a connected phone, and no exception
\* escapes
C29_FinishAlwaysCompletes ==
    app.shown # "" =>
        /\ FinishCompleted
        /\ app.shown = "ERROR" <=> app.params = Null

\* the connections whose 'open' event has arrived and whose 'close' event has not
OpenConns == {c \in Conns : host.status[c] = "open"}

\* a message the host sends goes to a connection that is open
SendsToOpenConn ==
    /\ host.conn # 0 => host.conn \in OpenConns
    /\ ret.op = "send" /\ ret.result.to # 0 => ret.result.to \in OpenConns

\* C30: after any interleaving of 'open' and 'close' events of connections from
\* several remotes, connected is true and send(msg) delivers the message whenever
\* at least one accepted connection is still open; send does nothing only when no
\* connection is open
C30_ConnectedWhileAnyOpen ==
    /\ OpenConns # {} => connected(host)
    /\ ret.op = "send" =>
          /\ ret.result.connected <=> (OpenConns # {})
          /\ (ret.result.to = 0) <=> (OpenConns = {})
====
